---- MODULE Spec2Model ----
(***************************************************************************)
(* Highlight selection of the AI-Youtube-Shorts-Generator.                 *)
(*                                                                         *)
(*  - Components/highlight_detector.py: the chunked detector               *)
(*    (_chunk_segments, _detect_highlights_chunk, detect_highlights).      *)
(*  - Components/language/highlight_detector.py: the provider-based        *)
(*    detector (detect_highlights, _parse_highlights).                     *)
(*                                                                         *)
(* Times are whole seconds.  A JSON value read from an oracle response is  *)
(* a record [k, v]: k = "num" (the number v), "nan" (the float NaN, which  *)
(* Python's json.loads accepts), "str" (a non-numeric string) or "missing" *)
(* (the key is absent).  Scores are in tenths (7 is 0.7).                  *)
(***************************************************************************)
EXTENDS Integers, Sequences, FiniteSets, TLC

VARIABLES
    mode,            \* which entry point runs: "chunker", "chunked", "provider"
    segments,        \* the transcript handed to the entry point
    max_segments,    \* _chunk_segments' max_segments argument
    chunks,          \* the list of chunks built by _chunk_segments
    pc,              \* position in the entry point
    oracle,          \* the oracle responses received so far, in call order
    all_highlights,  \* detect_highlights' all_highlights / _parse_highlights' highlights
    result,          \* the highlights returned (empty when None or [] is returned)
    params,          \* the provider-based detect_highlights' arguments
    faces,           \* _group_face_tracks' faces argument (sorted in place)
    tracks,          \* _group_face_tracks' tracks
    current_track_id,  \* _group_face_tracks' current_track_id
    n_grouped,       \* how many faces the loop "for face in faces" has taken
    box1,            \* _calculate_iou's box1 argument
    box2,            \* _calculate_iou's box2 argument
    iou,             \* what _calculate_iou(box1, box2) did
    frame_shape,     \* frame.shape[:2] of the video's frames: <<height, width>>
    frames,          \* what the face detector did on each frame so far
    detected,        \* what _detect_faces returned for the last frame
    position_history,  \* VideoProcessor.position_history
    current_crop_x,  \* VideoProcessor.current_crop_x: <<>> is None, <<f>> the float f
    smooth_x,        \* _get_smart_crop's smooth_x on the last frame, as current_crop_x
    crops,           \* the crop (x, y, w, h) of each frame so far
    scan_call,       \* the pass over a video: the method, what opening the
                     \* video does and what happens on each frame
    cap,             \* the decoder handle cap of the pass
    frame_idx,       \* frame_idx of the pass
    frame_faces,     \* how many faces each frame of the pass contributed
    raised,          \* the exception the pass is raising, "none" when none
    videos,          \* VideoManager.videos, in insertion order
    db_file,         \* what the database file holds
    new_videos,      \* the videos of main's new_videos still to download
    unprocessed_videos,  \* main's unprocessed_videos
    attempted,       \* the videos main has called process_video on
    met,             \* what process_video met on each of them
    clips,           \* the videos whose output clip was written
    files,           \* the videos whose file exists in videos_dir
    returned,        \* what get_unprocessed_videos returned last
    last_call,       \* the last call made on the VideoManager
    ever_marked,     \* the videos mark_as_processed has marked so far
    pending          \* the videos added and not marked since

\* the state of the crop planner
cropVars == <<frame_shape, frames, detected, position_history, current_crop_x,
              smooth_x, crops>>

\* No crop planner runs.
CropIdle ==
    /\ frame_shape = <<>>
    /\ frames = <<>>
    /\ detected = <<>>
    /\ position_history = <<>>
    /\ current_crop_x = <<>>
    /\ smooth_x = <<>>
    /\ crops = <<>>

\* the state of a pass of detect_faces or crop_to_face over a video
scanVars == <<scan_call, cap, frame_idx, frame_faces, raised>>

\* No pass over a video runs.
ScanIdle ==
    /\ scan_call = <<>>
    /\ cap = "unbound"
    /\ frame_idx = 0
    /\ frame_faces = <<>>
    /\ raised = "none"

\* the state of a batch run of main
batchVars == <<videos, db_file, new_videos, unprocessed_videos, attempted,
               met, clips, files, returned, last_call, ever_marked, pending>>

\* No batch runs.
BatchIdle ==
    /\ videos = <<>>
    /\ db_file = <<>>
    /\ new_videos = <<>>
    /\ unprocessed_videos = <<>>
    /\ attempted = <<>>
    /\ met = <<>>
    /\ clips = {}
    /\ files = {}
    /\ returned = <<>>
    /\ last_call = <<>>
    /\ ever_marked = {}
    /\ pending = {}

\* the state of the video pipeline around the face tracker
runVars == <<cropVars, scanVars, batchVars>>

RunIdle == CropIdle /\ ScanIdle /\ BatchIdle

\* the state of the face tracker and of the video pipeline
mediaVars == <<faces, tracks, current_track_id, n_grouped, box1, box2, iou,
               runVars>>

\* the state of the highlight detectors
highlightVars == <<segments, max_segments, chunks, oracle, all_highlights,
                   result, params>>

vars == <<mode, pc, highlightVars, mediaVars>>

\* No face tracker and no video pipeline runs.
MediaIdle ==
    /\ RunIdle
    /\ faces = <<>>
    /\ tracks = <<>>
    /\ current_track_id = 0
    /\ n_grouped = 0
    /\ box1 = <<>>
    /\ box2 = <<>>
    /\ iou = <<>>

(***************************************************************************)
(* Bounds of the model.                                                    *)
(***************************************************************************)
MaxLen == 4         \* longest segment list handed to _chunk_segments alone
MaxChunkSize == 3   \* largest max_segments handed to _chunk_segments alone
MaxEntries == 2     \* most entries in one oracle response
MaxProviderEntries == 3  \* most entries in one response of the provider
MaxMaxHighlights == 2   \* largest max_highlights argument drawn

(***************************************************************************)
(* Program constants.                                                      *)
(***************************************************************************)
DefaultMaxSegments == 30   \* _chunk_segments(segments, max_segments=30)
MinChunkDuration == 5      \* "if duration < 5", "5 <= duration"
MaxChunkDuration == 60     \* "duration <= 60"
BestCount == 3             \* all_highlights[:3]

(***************************************************************************)
(* Generic helpers.                                                        *)
(***************************************************************************)
Min(a, b) == IF a <= b THEN a ELSE b

SeqsUpTo(S, n) == UNION {[1..k -> S] : k \in 0..n}

RECURSIVE Flatten(_)
Flatten(ss) ==
    IF ss = <<>> THEN <<>> ELSE Head(ss) \o Flatten(Tail(ss))

(***************************************************************************)
(* Transcript segments: {"start", "end", "text"}.  A transcript of the     *)
(* family is n contiguous segments of d seconds, the first starting at     *)
(* off; a segment's text is its index.                                     *)
(***************************************************************************)
Segment(off, d, i) ==
    [start |-> off + (i - 1) * d, end |-> off + i * d, text |-> i]

Transcript(off, d, n) == [i \in 1..n |-> Segment(off, d, i)]

SegPool == {Segment(0, 1, i) : i \in 1..3}

(***************************************************************************)
(* HighlightDetector._chunk_segments:                                      *)
(*     for i in range(0, len(segments), max_segments):                     *)
(*         chunks.append(segments[i:i + max_segments])                     *)
(* i is the 0-based offset of the slice.                                   *)
(***************************************************************************)
RECURSIVE ChunkFrom(_, _, _)
ChunkFrom(segs, i, max) ==
    IF i >= Len(segs) THEN <<>>
    ELSE <<SubSeq(segs, i + 1, Min(i + max, Len(segs)))>>
         \o ChunkFrom(segs, i + max, max)

\* A chunker that only emits full chunks (drops a shorter last chunk).
ChunkSegmentsDropTail(segs, max) ==
    LET full == ChunkFrom(segs, 0, max)
    IN  SelectSeq(full, LAMBDA c : Len(c) = max)

_chunk_segments(segs, max) ==
    ChunkFrom(segs, 0, max)

(***************************************************************************)
(* Specification SpecChunk: _chunk_segments applied to every segment list  *)
(* of at most MaxLen segments and every max_segments in 1..MaxChunkSize.   *)
(***************************************************************************)
NoParams == [min_duration |-> 0, max_duration |-> 0, min_score |-> 0,
             max_highlights |-> 0]

InitChunk ==
    /\ mode = "chunker"
    /\ segments \in SeqsUpTo(SegPool, MaxLen)
    /\ max_segments \in 1..MaxChunkSize
    /\ chunks = <<>>
    /\ pc = "call"
    /\ oracle = <<>>
    /\ all_highlights = <<>>
    /\ result = <<>>
    /\ params = NoParams
    /\ MediaIdle

CallChunkSegments ==
    /\ mode = "chunker"
    /\ pc = "call"
    /\ chunks' = _chunk_segments(segments, max_segments)
    /\ pc' = "returned"
    /\ UNCHANGED <<mode, segments, max_segments, oracle, all_highlights,
                   result, params>>
    /\ UNCHANGED mediaVars

NextChunk == CallChunkSegments

SpecChunk == InitChunk /\ [][NextChunk]_vars

(***************************************************************************)
(* C1: the chunks returned by _chunk_segments, concatenated in order, are  *)
(* exactly the input list; every chunk holds at most max_segments          *)
(* segments; an empty input yields no chunk.                               *)
(***************************************************************************)
C1_ChunkPartition ==
    (mode = "chunker" /\ pc = "returned") =>
        /\ Flatten(chunks) = segments
        /\ \A k \in 1..Len(chunks) : Len(chunks[k]) <= max_segments
        /\ (segments = <<>> => chunks = <<>>)

\* A list that does not divide evenly: a full chunk followed by a shorter one.
C1_Witness ==
    /\ mode = "chunker" /\ pc = "returned"
    /\ Len(chunks) >= 2
    /\ Len(chunks[1]) = max_segments
    /\ Len(chunks[Len(chunks)]) < max_segments
    /\ segments[1] # segments[2]

(***************************************************************************)
(* JSON values of an oracle response and Python's float arithmetic on      *)
(* them: a comparison with NaN is False, arithmetic with NaN is NaN.       *)
(***************************************************************************)
Num(n) == [k |-> "num", v |-> n]
NaN == [k |-> "nan", v |-> 0]
Str == [k |-> "str", v |-> 0]
Missing == [k |-> "missing", v |-> 0]

IsNum(x) == x.k = "num"
IsFloat(x) == x.k \in {"num", "nan"}
FSub(a, b) == IF IsNum(a) /\ IsNum(b) THEN Num(a.v - b.v) ELSE NaN
FLt(a, b) == IsNum(a) /\ IsNum(b) /\ a.v < b.v
FLe(a, b) == IsNum(a) /\ IsNum(b) /\ a.v <= b.v

\* dict.get(key, default)
Get(x, default) == IF x.k = "missing" THEN default ELSE x

\* The text of an entry: absent, or a string given as its list of words
\* (numbers), empty for "".
Text(ws) == [k |-> "str", v |-> ws]
NoText == [k |-> "missing", v |-> <<>>]

(***************************************************************************)
(* Oracle responses of the chunked detector: the API call raises, the      *)
(* text is no JSON, or it is {"highlights": [entries]} with entries        *)
(* {"start", "end", "text"}.                                               *)
(***************************************************************************)
Entry(s, e, t) == [start |-> s, end |-> e, text |-> t]

ChunkEntries ==
    { Entry(Num(10), Num(30), Text(<<101>>)),     \* 20 s
      Entry(Num(20), Num(40), Text(<<102>>)),     \* 20 s
      Entry(Num(10), Num(13), Text(<<103>>)),     \* 3 s: too short
      Entry(Num(10), Num(11), Text(<<104>>)),     \* 1 s: too short
      Entry(Num(10), Num(90), Text(<<105>>)),     \* 80 s: too long
      Entry(Missing, Num(30), Text(<<106>>)),     \* no "start" key
      Entry(Str, Num(30), Text(<<107>>)),         \* "start": "abc"
      Entry(Num(20), Num(30), NoText),            \* no "text" key
      Entry(Num(20), NaN, Text(<<109>>)) }        \* "end": NaN

Response(kind, entries) == [kind |-> kind, entries |-> entries]

ChunkResponses ==
    {Response("api_error", <<>>), Response("bad_json", <<>>)}
    \cup {Response("ok", es) : es \in SeqsUpTo(ChunkEntries, MaxEntries)}

(***************************************************************************)
(* _detect_highlights_chunk, lines 120-144: one entry of the response.     *)
(***************************************************************************)
\* float(highlight.get("start", 0)) raises ValueError on a non-numeric string
FloatRaises(x) == ~IsFloat(Get(x, Num(0)))

EntryRaises(h) == FloatRaises(h.start) \/ FloatRaises(h.end)

\* lines 128-134: the first segment, in list order, with
\* float(segment["start"]) > end and float(segment["end"]) - start >= 5
\* replaces end; a segment that fails either test is passed over.
RECURSIVE ExtendFrom(_, _, _, _, _)
ExtendFrom(segs, i, start, end, text) ==
    IF i > Len(segs) THEN [end |-> end, text |-> text]
    ELSE IF segs[i].start > end /\ segs[i].end - start >= MinChunkDuration
         THEN [end |-> segs[i].end, text |-> Append(text, segs[i].text)]
         ELSE ExtendFrom(segs, i + 1, start, end, text)

\* lines 125-134: only a numeric duration below 5 enters the loop
Extend(segs, start, end, text) ==
    IF FLt(FSub(end, start), Num(MinChunkDuration))
    THEN LET x == ExtendFrom(segs, 1, start.v, end.v, text)
         IN  [end |-> Num(x.end), text |-> x.text]
    ELSE [end |-> end, text |-> text]

\* line 137: 5 <= duration <= 60 and text
ValidDuration(start, end) ==
    /\ FLe(Num(MinChunkDuration), FSub(end, start))
    /\ FLe(FSub(end, start), Num(MaxChunkDuration))

\* lines 121-142 for an entry that does not raise: the highlights appended
ValidateEntry(segs, h) ==
    LET start == Get(h.start, Num(0))
        end0  == Get(h.end, Num(0))
        text0 == h.text.v
        x     == Extend(segs, start, end0, text0)
    IN  IF ValidDuration(start, x.end) /\ x.text # <<>>
        THEN << [start |-> start.v, end |-> x.end.v, text |-> x.text] >>
        ELSE <<>>

RECURSIVE ValidateFrom(_, _, _, _)
ValidateFrom(segs, entries, i, valid_highlights) ==
    IF i > Len(entries) THEN [raised |-> FALSE, valid |-> valid_highlights]
    ELSE IF EntryRaises(entries[i])
         THEN [raised |-> TRUE, valid |-> <<>>]
         ELSE ValidateFrom(segs, entries, i + 1,
                           valid_highlights \o ValidateEntry(segs, entries[i]))

\* The exceptions raised inside _detect_highlights_chunk's try blocks
ChunkRaises(segs, resp) ==
    \/ resp.kind \in {"api_error", "bad_json"}
    \/ ValidateFrom(segs, resp.entries, 1, <<>>).raised

\* A scorer whose handlers let the exception through to detect_highlights.
ChunkOutcomeNoCatch(segs, resp) ==
    IF ChunkRaises(segs, resp)
    THEN [raised |-> TRUE, highlights |-> <<>>]
    ELSE [raised |-> FALSE,
          highlights |-> ValidateFrom(segs, resp.entries, 1, <<>>).valid]

\* _detect_highlights_chunk: every exception is caught (lines 153-162) and
\* None returned; None and "no valid highlight" are the empty list here,
\* the caller tests "if highlights:".
_detect_highlights_chunk(segs, resp) ==
    IF ChunkRaises(segs, resp)
    THEN [raised |-> FALSE, highlights |-> <<>>]
    ELSE [raised |-> FALSE,
          highlights |-> ValidateFrom(segs, resp.entries, 1, <<>>).valid]

(***************************************************************************)
(* list.sort(key=...): a stable sort, also with reverse=True (elements     *)
(* with equal keys keep their order).  Sorts records [key, val] by         *)
(* ascending key; a descending sort negates the key.                       *)
(***************************************************************************)
RECURSIVE Insert(_, _)
Insert(x, s) ==
    IF s = <<>> THEN <<x>>
    ELSE IF x.key < Head(s).key THEN <<x>> \o s
         ELSE <<Head(s)>> \o Insert(x, Tail(s))

RECURSIVE StableSortFrom(_, _, _)
StableSortFrom(s, i, acc) ==
    IF i > Len(s) THEN acc ELSE StableSortFrom(s, i + 1, Insert(s[i], acc))

StableSort(keyed) ==
    LET sorted == StableSortFrom(keyed, 1, <<>>)
    IN  [i \in 1..Len(sorted) |-> sorted[i].val]

Duration(h) == h.end - h.start

\* all_highlights.sort(key=lambda x: x['end'] - x['start'], reverse=True)
SortByDurationDesc(hs) ==
    StableSort([i \in 1..Len(hs) |-> [key |-> 0 - Duration(hs[i]), val |-> hs[i]]])

\* best_highlights.sort(key=lambda x: x['start'])
SortByStart(hs) ==
    StableSort([i \in 1..Len(hs) |-> [key |-> hs[i].start, val |-> hs[i]]])

\* all_highlights[:3]
Take(hs, n) == SubSeq(hs, 1, Min(n, Len(hs)))

\* An aggregator that returns every candidate.
BestHighlightsUncapped(hs) ==
    SortByStart(SortByDurationDesc(hs))

\* detect_highlights lines 194-203 (chunked detector)
BestHighlights(hs) ==
    SortByStart(Take(SortByDurationDesc(hs), BestCount))

(***************************************************************************)
(* The chunked detect_highlights, Components/highlight_detector.py.        *)
(***************************************************************************)
ChunkedTranscripts ==
    { <<>>,
      Transcript(10, 3, 2),                     \* 10-13, 13-16
      Transcript(0, 1, DefaultMaxSegments + 1) }  \* 0-1, ..., 30-31: two chunks

InitChunked ==
    /\ mode = "chunked"
    /\ segments \in ChunkedTranscripts
    /\ max_segments = DefaultMaxSegments
    /\ chunks = <<>>
    /\ pc = "call"
    /\ oracle = <<>>
    /\ all_highlights = <<>>
    /\ result = <<>>
    /\ params = NoParams
    /\ MediaIdle

\* lines 178-184: no segments returns None, else the transcript is chunked
DetectStart ==
    /\ mode = "chunked"
    /\ pc = "call"
    /\ IF segments = <<>>
       THEN /\ pc' = "returned"
            /\ UNCHANGED chunks
       ELSE /\ chunks' = _chunk_segments(segments, max_segments)
            /\ pc' = "score"
    /\ UNCHANGED <<mode, segments, max_segments, oracle, all_highlights,
                   result, params>>
    /\ UNCHANGED mediaVars

\* lines 188-192: one turn of the loop, the oracle answering the chunk;
\* an exception leaving _detect_highlights_chunk would end in lines 208-212
ScoreChunk ==
    /\ mode = "chunked"
    /\ pc = "score"
    /\ Len(oracle) < Len(chunks)
    /\ \E resp \in ChunkResponses :
          LET got == _detect_highlights_chunk(chunks[Len(oracle) + 1], resp)
          IN  /\ oracle' = Append(oracle, resp)
              /\ IF got.raised
                 THEN /\ pc' = "returned"
                      /\ UNCHANGED all_highlights
                 ELSE /\ all_highlights' = all_highlights \o got.highlights
                      /\ pc' = "score"
    /\ UNCHANGED <<mode, segments, max_segments, chunks, result, params>>
    /\ UNCHANGED mediaVars

\* lines 194-206: all_highlights is sorted in place, longest first; the
\* three longest are returned by start time, None when there is none
Aggregate ==
    /\ mode = "chunked"
    /\ pc = "score"
    /\ Len(oracle) = Len(chunks)
    /\ all_highlights' = SortByDurationDesc(all_highlights)
    /\ result' = IF all_highlights # <<>>
                 THEN BestHighlights(all_highlights)
                 ELSE <<>>
    /\ pc' = "returned"
    /\ UNCHANGED <<mode, segments, max_segments, chunks, oracle, params>>
    /\ UNCHANGED mediaVars


(***************************************************************************)
(* The provider-based detector, Components/language/highlight_detector.py. *)
(* Entries are {"start_time", "end_time", "text", "score", "reason"}; the  *)
(* score and the reason of the entries drawn here are always present, the  *)
(* score a float in tenths, or NaN, which json.loads accepts as it does    *)
(* for a timestamp.                                                        *)
(***************************************************************************)
PEntry(s, e, t, sc) ==
    [start_time |-> s, end_time |-> e, text |-> t, score |-> sc]

ProviderEntries ==
    { PEntry(Num(10), Num(30), Text(<<201>>), Num(9)),   \* 20 s, 0.9
      PEntry(Num(20), Num(30), Text(<<202>>), Num(9)),   \* 10 s, 0.9
      PEntry(Num(10), Num(40), Text(<<203>>), Num(8)),   \* 30 s, 0.8
      PEntry(Num(10), Num(15), Text(<<204>>), Num(9)),   \* 5 s: too short
      PEntry(Num(10), Num(30), Text(<<205>>), Num(5)),   \* below min_score
      PEntry(NaN, Num(30), Text(<<206>>), Num(9)),       \* "start_time": NaN
      PEntry(Missing, Num(30), Text(<<207>>), Num(9)),   \* no "start_time" key
      PEntry(Num(10), Str, Text(<<208>>), Num(9)),       \* "end_time": "abc"
      PEntry(Num(10), Num(30), NoText, Num(9)),          \* no "text" key
      PEntry(Num(10), Num(90), NoText, Num(9)),          \* 80 s, no "text" key
      PEntry(Num(10), Num(30), Text(<<209>>), NaN) }     \* "score": NaN

ProviderResponses ==
    {Response("api_error", <<>>), Response("bad_json", <<>>)}
    \cup {Response("ok", es) : es \in SeqsUpTo(ProviderEntries, MaxProviderEntries)}

Params(mind, maxd, mins, maxh) ==
    [min_duration |-> mind, max_duration |-> maxd, min_score |-> mins,
     max_highlights |-> maxh]

ProviderParams ==
    {Params(10, 60, 7, n) : n \in 0..MaxMaxHighlights}
    \cup {Params(60, 10, 7, 1), Params(10, 60, 11, 1)}

\* line 230: h["end_time"] - h["start_time"] raises KeyError on an absent
\* key and TypeError on a string
PDurationRaises(h) == ~IsFloat(h.end_time) \/ ~IsFloat(h.start_time)

\* lines 231-232 as written: "<" and ">" are both False for NaN
PSkipDuration(h, p) ==
    LET duration == FSub(h.end_time, h.start_time)
    IN  FLt(duration, Num(p.min_duration)) \/ FLt(Num(p.max_duration), duration)

\* lines 235-236: "<" is False for a NaN score
PSkipScore(h, p) == FLt(h.score, Num(p.min_score))

\* lines 228-245: the loop over data["highlights"]
RECURSIVE ParseFrom(_, _, _, _)
ParseFrom(entries, i, p, highlights) ==
    IF i > Len(entries) THEN [raised |-> FALSE, highlights |-> highlights]
    ELSE LET h == entries[i] IN
         IF PDurationRaises(h) THEN [raised |-> TRUE, highlights |-> <<>>]
         ELSE IF PSkipDuration(h, p) \/ PSkipScore(h, p)
              THEN ParseFrom(entries, i + 1, p, highlights)
         ELSE IF h.text.k = "missing"       \* h["text"]: KeyError
              THEN [raised |-> TRUE, highlights |-> <<>>]
         ELSE ParseFrom(entries, i + 1, p,
                  Append(highlights,
                         [start_time |-> h.start_time, end_time |-> h.end_time,
                          text |-> h.text.v, score |-> h.score]))

(***************************************************************************)
(* list.sort on the scores, as the interpreter sorts a list of fewer than  *)
(* 64 elements: the leading run is taken as it stands (turned round when   *)
(* it descends strictly), the elements after it are placed one by one by   *)
(* binary insertion.  The only comparison is "<" on the keys, False as     *)
(* soon as one of them is NaN, so that a NaN score is never moved past     *)
(* and the list may be left out of order.                                  *)
(***************************************************************************)
ScoreLt(a, b) == FLt(a.score, b.score)

Reversed(hs) == [i \in 1..Len(hs) |-> hs[Len(hs) + 1 - i]]

\* the last index of the run that hs[1], hs[2] begin, from index i on
RECURSIVE RunEnd(_, _, _)
RunEnd(hs, i, descending) ==
    IF i > Len(hs) THEN Len(hs)
    ELSE IF ScoreLt(hs[i], hs[i - 1]) = descending
         THEN RunEnd(hs, i + 1, descending)
         ELSE i - 1

\* where pivot goes among the sorted hs[l..r-1]: after its equals
RECURSIVE InsertionPoint(_, _, _, _)
InsertionPoint(hs, pivot, l, r) ==
    IF l >= r THEN l
    ELSE IF ScoreLt(pivot, hs[l + (r - l) \div 2])
         THEN InsertionPoint(hs, pivot, l, l + (r - l) \div 2)
         ELSE InsertionPoint(hs, pivot, l + (r - l) \div 2 + 1, r)

MoveTo(hs, start, l) ==
    SubSeq(hs, 1, l - 1) \o <<hs[start]>> \o SubSeq(hs, l, start - 1)
    \o SubSeq(hs, start + 1, Len(hs))

RECURSIVE BinarySort(_, _)
BinarySort(hs, start) ==
    IF start > Len(hs) THEN hs
    ELSE BinarySort(MoveTo(hs, start,
                           InsertionPoint(hs, hs[start], 1, start)),
                    start + 1)

RunFirst(hs, n, descending) ==
    IF descending THEN Reversed(SubSeq(hs, 1, n)) \o SubSeq(hs, n + 1, Len(hs))
    ELSE hs

SortRun(hs, descending) ==
    BinarySort(RunFirst(hs, RunEnd(hs, 3, descending), descending),
               RunEnd(hs, 3, descending) + 1)

SortByScoreAsc(hs) ==
    IF Len(hs) < 2 THEN hs ELSE SortRun(hs, ScoreLt(hs[2], hs[1]))

\* highlights.sort(key=lambda x: x.score, reverse=True): the list is
\* turned round, sorted, and turned round again
SortByScoreDesc(hs) == Reversed(SortByScoreAsc(Reversed(hs)))

\* The highlights that pass the filters, before lines 247-249; an
\* exception anywhere in the try block leaves none (lines 251-253).
PCandidates(resp, p) ==
    IF resp.kind # "ok" THEN <<>>
    ELSE LET r == ParseFrom(resp.entries, 1, p, <<>>)
         IN  IF r.raised THEN <<>> ELSE r.highlights

\* _parse_highlights, lines 222-253
_parse_highlights(resp, p) ==
    Take(SortByScoreDesc(PCandidates(resp, p)), p.max_highlights)

InitProvider ==
    /\ mode = "provider"
    /\ segments \in {<<>>, Transcript(0, 1, 2)}
    /\ max_segments = 0
    /\ chunks = <<>>
    /\ pc = "call"
    /\ oracle = <<>>
    /\ all_highlights = <<>>
    /\ result = <<>>
    /\ params \in ProviderParams
    /\ MediaIdle

\* detect_highlights lines 73-83: an empty transcript returns [], a bad
\* argument raises ValueError
ProviderStart ==
    /\ mode = "provider"
    /\ pc = "call"
    /\ pc' = IF segments = <<>> THEN "returned"
             ELSE IF \/ params.min_duration >= params.max_duration
                     \/ ~(0 <= params.min_score /\ params.min_score <= 10)
                     \/ params.max_highlights < 1
                  THEN "raised"
                  ELSE "request"
    /\ UNCHANGED <<mode, segments, max_segments, chunks, oracle,
                   all_highlights, result, params>>
    /\ UNCHANGED mediaVars

\* lines 85-108: the provider answers, or raises and APIError is raised;
\* _parse_highlights catches what it raises itself
ProviderRequest ==
    /\ mode = "provider"
    /\ pc = "request"
    /\ \E resp \in ProviderResponses :
          /\ oracle' = <<resp>>
          /\ IF resp.kind = "api_error"
             THEN /\ pc' = "raised"
                  /\ UNCHANGED <<all_highlights, result>>
             ELSE /\ all_highlights' = SortByScoreDesc(PCandidates(resp,
                                                                   params))
                  /\ result' = _parse_highlights(resp, params)
                  /\ pc' = "returned"
    /\ UNCHANGED <<mode, segments, max_segments, chunks, params>>
    /\ UNCHANGED mediaVars

(***************************************************************************)
(* Specification SpecHighlights: one run of either detect_highlights.      *)
(***************************************************************************)
InitHighlights == InitChunked \/ InitProvider

NextHighlights ==
    \/ DetectStart
    \/ ScoreChunk
    \/ Aggregate
    \/ ProviderStart
    \/ ProviderRequest

SpecHighlights == InitHighlights /\ [][NextHighlights]_vars

(***************************************************************************)
(* Vocabulary of the properties.                                           *)
(***************************************************************************)
Returned(m) == mode = m /\ pc = "returned"

Range(s) == {s[i] : i \in 1..Len(s)}

\* The candidates chunk k added to all_highlights, from the response it got
Contribution(k) == _detect_highlights_chunk(chunks[k], oracle[k]).highlights

\* The candidates that are not part of the returned selection
LeftOut == Range(all_highlights) \ Range(result)

\* Duration of a provider-based Highlight (a float, possibly NaN)
PDuration(h) == FSub(h.end_time, h.start_time)

(***************************************************************************)
(* C2: every highlight of a final result has a duration between the        *)
(* minimum and the maximum: 5 and 60 seconds in the chunked detector,      *)
(* min_duration and max_duration in the provider-based detector.           *)
(* Fails in the provider-based detector: a NaN timestamp makes both tests  *)
(* of line 231 False and the entry is kept.                                *)
(***************************************************************************)
C2_DurationBound ==
    /\ Returned("chunked") =>
          \A h \in Range(result) :
              /\ MinChunkDuration <= Duration(h)
              /\ Duration(h) <= MaxChunkDuration
    /\ Returned("provider") =>
          \A h \in Range(result) :
              /\ FLe(Num(params.min_duration), PDuration(h))
              /\ FLe(PDuration(h), Num(params.max_duration))

(***************************************************************************)
(* C3: the final sequence of either detect_highlights is non-decreasing    *)
(* in start time (no highlight is followed by one that starts strictly     *)
(* earlier).  Fails in the provider-based detector, which returns its      *)
(* highlights as line 248 has sorted them on the score.                    *)
(***************************************************************************)
C3_SortedByStartEverywhere ==
    /\ Returned("chunked") =>
          \A i, j \in 1..Len(result) : i < j => result[i].start <= result[j].start
    /\ Returned("provider") =>
          \A i, j \in 1..Len(result) :
              i < j => ~FLt(result[j].start_time, result[i].start_time)

(***************************************************************************)
(* C4: whatever the order in which the chunks' results are collected, the  *)
(* final sequence of the chunked detect_highlights is the same.  Fails     *)
(* when candidates of equal duration compete for the three places: the     *)
(* sort of line 196 keeps them in collection order.                        *)
(***************************************************************************)
Perms(n) == {f \in [1..n -> 1..n] : \A i, j \in 1..n : i # j => f[i] # f[j]}

\* The final result had the chunks' results been collected in order f
ResultInOrder(f) ==
    LET collected == Flatten([k \in 1..Len(chunks) |-> Contribution(f[k])])
    IN  IF collected # <<>> THEN BestHighlights(collected) ELSE <<>>

AllScored == Returned("chunked") /\ segments # <<>> /\ Len(oracle) = Len(chunks)

C4_AnyOrderSameResult ==
    AllScored => \A f \in Perms(Len(chunks)) : ResultInOrder(f) = result

(***************************************************************************)
(* C5: no candidate left out of the final result outranks a selected one   *)
(* under: score descending, then longer duration, then earlier start (the  *)
(* chunked detector's candidates carry no score).  Fails in both           *)
(* detectors: neither breaks ties that way, and the provider-based one     *)
(* leaves a higher score out when a NaN score stands before it.            *)
(***************************************************************************)
OutranksChunked(c, s) ==
    \/ Duration(c) > Duration(s)
    \/ Duration(c) = Duration(s) /\ c.start < s.start

FEq(a, b) == IsNum(a) /\ IsNum(b) /\ a.v = b.v

OutranksProvider(c, s) ==
    \/ FLt(s.score, c.score)
    \/ FEq(c.score, s.score) /\ FLt(PDuration(s), PDuration(c))
    \/ /\ FEq(c.score, s.score) /\ FEq(PDuration(c), PDuration(s))
       /\ FLt(c.start_time, s.start_time)

C5_RankedWithTieBreaks ==
    /\ Returned("chunked") =>
          \A c \in LeftOut : \A s \in Range(result) : ~OutranksChunked(c, s)
    /\ Returned("provider") =>
          \A c \in LeftOut : \A s \in Range(result) : ~OutranksProvider(c, s)

(***************************************************************************)
(* C6: the number of highlights returned never exceeds max_highlights      *)
(* (3 in the chunked detector).                                            *)
(***************************************************************************)
C6_Cardinality ==
    /\ Returned("chunked") => Len(result) <= BestCount
    /\ Returned("provider") => Len(result) <= params.max_highlights

\* More candidates than places: the chunked detector keeps exactly three.
C6_Witness ==
    /\ Returned("chunked")
    /\ Len(all_highlights) > BestCount
    /\ Len(result) = BestCount

(***************************************************************************)
(* The chunks scored so far whose response was read to the end, and the    *)
(* entries of such a response that are numeric and shorter than 5 s.       *)
(***************************************************************************)
Scored == IF mode = "chunked" THEN 1..Len(oracle) ELSE {}

ReadToEnd(k) == ~ChunkRaises(chunks[k], oracle[k])

ShortEntries(k) ==
    {e \in Range(oracle[k].entries) :
        /\ IsNum(e.start) /\ IsNum(e.end) /\ e.text.v # <<>>
        /\ e.end.v - e.start.v < MinChunkDuration}

\* The candidates of chunk k that stem from entry e (same start, e's text first)
HighlightsOf(k, e) ==
    {h \in Range(Contribution(k)) :
        /\ h.start = e.start.v
        /\ Len(h.text) >= Len(e.text.v)
        /\ SubSeq(h.text, 1, Len(e.text.v)) = e.text.v}

(***************************************************************************)
(* C7: a too-short candidate whose end coincides with the start of the     *)
(* next segment of the chunk is extended to that segment's end and kept    *)
(* when the extended duration reaches the minimum (10-13 next to 13-16     *)
(* gives 10-16).  Fails: line 129 asks for a segment that starts strictly  *)
(* after the end, so the adjacent segment is never the one absorbed.       *)
(***************************************************************************)
C7_AdjacentSegmentAbsorbed ==
    \A k \in Scored : ReadToEnd(k) =>
        \A e \in ShortEntries(k) :
            \A i \in 1..Len(chunks[k]) :
                LET seg == chunks[k][i] IN
                (/\ seg.start = e.end.v
                 /\ seg.end - e.start.v >= MinChunkDuration
                 /\ seg.end - e.start.v <= MaxChunkDuration)
                => [start |-> e.start.v, end |-> seg.end,
                    text |-> Append(e.text.v, seg.text)] \in Range(Contribution(k))

(***************************************************************************)
(* C8: extension is a single attempt: only the first segment of the chunk  *)
(* that starts after the candidate's end is considered; when absorbing it  *)
(* does not reach the minimum the candidate is discarded, and no later     *)
(* segment is absorbed instead.  Fails: the loop of lines 128-134 goes on  *)
(* to the later segments until one reaches the minimum.                    *)
(***************************************************************************)
After(k, e) == {i \in 1..Len(chunks[k]) : chunks[k][i].start > e.end.v}

FirstAfter(k, e) ==
    chunks[k][CHOOSE i \in After(k, e) : \A j \in After(k, e) : i <= j]

C8_SingleAttempt ==
    \A k \in Scored : ReadToEnd(k) =>
        \A e \in ShortEntries(k) :
            IF After(k, e) # {}
               /\ FirstAfter(k, e).end - e.start.v >= MinChunkDuration
            THEN \A h \in HighlightsOf(k, e) : h.end = FirstAfter(k, e).end
            ELSE HighlightsOf(k, e) = {}

(***************************************************************************)
(* C9: a chunk whose oracle call or response parsing fails contributes no  *)
(* candidate and does not stop detect_highlights: every chunk is scored    *)
(* and the final selection is made among the valid candidates of all the   *)
(* other chunks.                                                           *)
(***************************************************************************)
ValidCandidates(k) ==
    IF ChunkRaises(chunks[k], oracle[k]) THEN <<>>
    ELSE ValidateFrom(chunks[k], oracle[k].entries, 1, <<>>).valid

C9_FailureIsolated ==
    (Returned("chunked") /\ segments # <<>>) =>
        /\ Len(oracle) = Len(chunks)
        /\ all_highlights
              = SortByDurationDesc(
                    Flatten([k \in 1..Len(chunks) |-> ValidCandidates(k)]))
        /\ all_highlights # <<>> => result # <<>>
        /\ Range(result) \subseteq Range(all_highlights)

\* The first chunk's call failed and the result comes from the second.
C9_Witness ==
    /\ Returned("chunked")
    /\ Len(chunks) = 2 /\ Len(oracle) = 2
    /\ oracle[1].kind = "api_error"
    /\ ValidCandidates(2) # <<>>
    /\ result = ValidCandidates(2)

(***************************************************************************)
(* C10: a response in which an entry lacks a required key (start, end or   *)
(* text) or carries a non-numeric timestamp is a parse failure: no         *)
(* candidate of that response is kept.  Fails: the chunked detector reads  *)
(* an absent key as 0 or "" (lines 121-123), the provider-based one skips  *)
(* an entry of bad duration before it reads its text.                      *)
(***************************************************************************)
Deviant(x) == x.k \in {"missing", "str"}

MalformedChunkResponse(resp) ==
    \E e \in Range(resp.entries) :
        Deviant(e.start) \/ Deviant(e.end) \/ e.text.k = "missing"

MalformedProviderResponse(resp) ==
    \E e \in Range(resp.entries) :
        Deviant(e.start_time) \/ Deviant(e.end_time) \/ e.text.k = "missing"

C10_MalformedEntryFailsChunk ==
    /\ \A k \in Scored :
          MalformedChunkResponse(oracle[k]) => Contribution(k) = <<>>
    /\ (Returned("provider") /\ oracle # <<>>) =>
          (MalformedProviderResponse(oracle[1]) => result = <<>>)

(***************************************************************************)
(* Face tracker, Components/media/face_detector.py.                        *)
(*                                                                         *)
(* A box is the tuple (x, y, w, h) of integers that detect_faces builds    *)
(* with int(...).  A float that is the quotient of two integers is the     *)
(* record [raises, num, den] of the quotient in lowest terms: two such     *)
(* floats are equal exactly when the records are (the integers are small), *)
(* and raises says that the division raised ZeroDivisionError.             *)
(***************************************************************************)
Max(a, b) == IF a >= b THEN a ELSE b

RECURSIVE GCD(_, _)
GCD(a, b) == IF b = 0 THEN a ELSE GCD(b, a % b)

Ratio(n, d) ==
    [raises |-> FALSE, num |-> n \div GCD(n, d), den |-> d \div GCD(n, d)]

ZeroDivision == [raises |-> TRUE, num |-> 0, den |-> 1]

\* a >= b on two floats that are quotients
RatioGe(a, b) == a.num * b.den >= b.num * a.den

\* lines 265-310
_calculate_iou(b1, b2) ==
    LET c1 == <<b1[1], b1[2], b1[1] + b1[3], b1[2] + b1[4]>>
        c2 == <<b2[1], b2[2], b2[1] + b2[3], b2[2] + b2[4]>>
        x1 == Max(c1[1], c2[1])
        y1 == Max(c1[2], c2[2])
        x2 == Min(c1[3], c2[3])
        y2 == Min(c1[4], c2[4])
        intersection == (x2 - x1) * (y2 - y1)
        area1 == (c1[3] - c1[1]) * (c1[4] - c1[2])
        area2 == (c2[3] - c2[1]) * (c2[4] - c2[2])
        union == area1 + area2 - intersection
    IN  IF x2 < x1 \/ y2 < y1 THEN Ratio(0, 1)
        ELSE IF union = 0 THEN ZeroDivision
        ELSE Ratio(intersection, union)

(***************************************************************************)
(* Specification SpecIou: one call of _calculate_iou on two boxes whose    *)
(* corner and sides are at most MaxCoord.                                  *)
(***************************************************************************)
MaxCoord == 2

Boxes == (0..MaxCoord) \X (0..MaxCoord) \X (0..MaxCoord) \X (0..MaxCoord)

\* No highlight detector runs.
HighlightsIdle ==
    /\ segments = <<>>
    /\ max_segments = DefaultMaxSegments
    /\ chunks = <<>>
    /\ oracle = <<>>
    /\ all_highlights = <<>>
    /\ result = <<>>
    /\ params = NoParams

\* No _group_face_tracks runs.
TrackerIdle ==
    /\ faces = <<>>
    /\ tracks = <<>>
    /\ current_track_id = 0
    /\ n_grouped = 0

trackerVars == <<faces, tracks, current_track_id, n_grouped>>

iouVars == <<box1, box2, iou>>

InitIou ==
    /\ mode = "iou"
    /\ pc = "call"
    /\ box1 \in Boxes
    /\ box2 \in Boxes
    /\ iou = <<>>
    /\ HighlightsIdle
    /\ TrackerIdle
    /\ RunIdle

CallCalculateIou ==
    /\ mode = "iou"
    /\ pc = "call"
    /\ iou' = _calculate_iou(box1, box2)
    /\ pc' = IF iou'.raises THEN "raised" ELSE "returned"
    /\ UNCHANGED <<mode, box1, box2, highlightVars, trackerVars, runVars>>

NextIou == CallCalculateIou

SpecIou == InitIou /\ [][NextIou]_vars

(***************************************************************************)
(* C13: _calculate_iou returns 1.0 for a box compared with itself, 0.0 for *)
(* two rectangles that do not overlap, and the same value with the         *)
(* arguments swapped.  Fails: for two boxes of zero area that touch, a box *)
(* of zero width or height compared with itself among them, line 310       *)
(* divides by float(0) and raises ZeroDivisionError.                       *)
(***************************************************************************)
\* the interiors of the two rectangles meet
Overlap(b1, b2) ==
    /\ Max(b1[1], b2[1]) < Min(b1[1] + b1[3], b2[1] + b2[3])
    /\ Max(b1[2], b2[2]) < Min(b1[2] + b1[4], b2[2] + b2[4])

C13_IouLaws ==
    (mode = "iou" /\ pc # "call") =>
        /\ box1 = box2 => iou = Ratio(1, 1)
        /\ ~Overlap(box1, box2) => iou = Ratio(0, 1)
        /\ iou = _calculate_iou(box2, box1)

(***************************************************************************)
(* _group_face_tracks.  A FaceBox carries x, y, width, height, timestamp   *)
(* and det, the position of the detection in the list handed in, which     *)
(* stands for the identity of the Python object (confidence and frame_idx  *)
(* are not read by the grouping decisions).  Timestamps are in quarters of *)
(* a second, which are floats whose differences are exact.                 *)
(***************************************************************************)
FaceBox(shape, t, d) ==
    [x |-> shape[1], y |-> shape[2], width |-> shape[3], height |-> shape[4],
     timestamp |-> t, det |-> d]

FaceTrack(id, face) ==
    [track_id |-> id, boxes |-> <<face>>,
     start_time |-> face.timestamp, end_time |-> face.timestamp]

BoxOf(face) == <<face.x, face.y, face.width, face.height>>

iou_thresh == Ratio(1, 2)   \* iou_thresh: float = 0.5
time_thresh == 2            \* time_thresh: float = 0.5, in quarters of a second

\* A sort that leaves the list as it was handed in.
Unsorted(fs) == fs

\* faces.sort(key=lambda x: x.timestamp)
SortByTimestamp(fs) ==
    StableSort([i \in 1..Len(fs) |-> [key |-> fs[i].timestamp, val |-> fs[i]]])

\* A matcher that never associates a face with a track.
MatchNone(ts, face, k) == 0

\* lines 226-250, the loop "for track in tracks" from the k-th track on:
\* the index of the track that takes the face, 0 when none does, -1 when
\* _calculate_iou raises before
RECURSIVE MatchFrom(_, _, _)
MatchFrom(ts, face, k) ==
    IF k > Len(ts) THEN 0
    ELSE IF ts[k].boxes = <<>> THEN MatchFrom(ts, face, k + 1)
    ELSE LET last_face == ts[k].boxes[Len(ts[k].boxes)]
             time_diff == face.timestamp - last_face.timestamp
             got == _calculate_iou(BoxOf(last_face), BoxOf(face))
         IN  IF time_diff > time_thresh THEN MatchFrom(ts, face, k + 1)
             ELSE IF got.raises THEN 0 - 1
             ELSE IF RatioGe(got, iou_thresh) THEN k
             ELSE MatchFrom(ts, face, k + 1)

\* A track constructor that leaves the new track without its face.
NewTrackEmpty(id, face) == [FaceTrack(id, face) EXCEPT !.boxes = <<>>]

\* A track constructor that numbers every track 0.
NewTrackZero(id, face) == FaceTrack(0, face)

\* lines 254-260
NewTrack(id, face) == FaceTrack(id, face)

(***************************************************************************)
(* Specification SpecTracks: one call of _group_face_tracks on up to       *)
(* MaxFaces detections, in any order, drawn from boxes of side 3 at        *)
(* x = 0, 1, 2, 6 and a box of zero width, at t = 0, 0.25, 0.75.           *)
(***************************************************************************)
MaxFaces == 3

TrackShapes ==
    { <<0, 0, 3, 3>>, <<1, 0, 3, 3>>, <<2, 0, 3, 3>>, <<6, 0, 3, 3>>,
      <<0, 0, 0, 3>> }

TrackTimes == {0, 1, 3}

InitTracks ==
    /\ mode = "tracker"
    /\ pc = "call"
    /\ \E fs \in SeqsUpTo(TrackShapes \X TrackTimes, MaxFaces) :
          faces = [i \in 1..Len(fs) |-> FaceBox(fs[i][1], fs[i][2], i)]
    /\ tracks = <<>>
    /\ current_track_id = 0
    /\ n_grouped = 0
    /\ box1 = <<>> /\ box2 = <<>> /\ iou = <<>>
    /\ HighlightsIdle
    /\ RunIdle

\* lines 211-219: no faces returns [], else the list is sorted in place
GroupStart ==
    /\ mode = "tracker"
    /\ pc = "call"
    /\ IF faces = <<>>
       THEN /\ pc' = "returned"
            /\ UNCHANGED faces
       ELSE /\ faces' = SortByTimestamp(faces)
            /\ pc' = "group"
    /\ tracks' = <<>>
    /\ current_track_id' = 0
    /\ UNCHANGED <<mode, n_grouped, iouVars, highlightVars, runVars>>

\* lines 222-261: one turn of the loop "for face in faces"
GroupFace ==
    /\ mode = "tracker"
    /\ pc = "group"
    /\ n_grouped < Len(faces)
    /\ LET face == faces[n_grouped + 1]
           k == MatchFrom(tracks, face, 1)
       IN  IF k < 0
           THEN /\ pc' = "raised"
                /\ UNCHANGED <<tracks, current_track_id>>
           ELSE IF k > 0
           THEN /\ tracks' = [tracks EXCEPT
                                 ![k].boxes = Append(@, face),
                                 ![k].end_time = face.timestamp]
                /\ UNCHANGED <<pc, current_track_id>>
           ELSE /\ tracks' = Append(tracks, NewTrack(current_track_id, face))
                /\ current_track_id' = current_track_id + 1
                /\ UNCHANGED pc
    /\ n_grouped' = n_grouped + 1
    /\ UNCHANGED <<mode, faces, iouVars, highlightVars, runVars>>

\* line 263
GroupReturn ==
    /\ mode = "tracker"
    /\ pc = "group"
    /\ n_grouped = Len(faces)
    /\ pc' = "returned"
    /\ UNCHANGED <<mode, trackerVars, iouVars, highlightVars, runVars>>

NextTracks == GroupStart \/ GroupFace \/ GroupReturn

SpecTracks == InitTracks /\ [][NextTracks]_vars

(***************************************************************************)
(* Vocabulary of the claims on the face tracker.                           *)
(***************************************************************************)
\* the track that holds the detection
TrackOf(face) ==
    CHOOSE k \in 1..Len(tracks) :
        \E j \in 1..Len(tracks[k].boxes) : tracks[k].boxes[j].det = face.det

\* the two detections meet both thresholds
Associated(a, b) ==
    LET got == _calculate_iou(BoxOf(a), BoxOf(b))
    IN  /\ ~got.raises
        /\ RatioGe(got, iou_thresh)
        /\ a.timestamp - b.timestamp <= time_thresh
        /\ b.timestamp - a.timestamp <= time_thresh

\* the track is eligible for the face: its last box is at most time_thresh
\* before it and their IoU is at least iou_thresh
Eligible(track, face) ==
    LET last == track.boxes[Len(track.boxes)]
        got == _calculate_iou(BoxOf(last), BoxOf(face))
    IN  /\ face.timestamp - last.timestamp <= time_thresh
        /\ ~got.raises
        /\ RatioGe(got, iou_thresh)

\* the track is not eligible: the time gap is above time_thresh or the IoU
\* below iou_thresh
Ineligible(track, face) ==
    LET last == track.boxes[Len(track.boxes)]
        got == _calculate_iou(BoxOf(last), BoxOf(face))
    IN  \/ face.timestamp - last.timestamp > time_thresh
        \/ ~got.raises /\ ~RatioGe(got, iou_thresh)

\* the loop is about to take faces[n_grouped + 1]
TakingFace == mode = "tracker" /\ pc = "group" /\ n_grouped < Len(faces)

(***************************************************************************)
(* C11 as stated: in the output, any two detections with IoU >= iou_thresh *)
(* and timestamps at most time_thresh apart are in the same track.  Fails: *)
(* a detection is compared with the last box of each track only, and the   *)
(* first eligible track takes it.                                          *)
(***************************************************************************)
C11_SameTrack ==
    Returned("tracker") =>
        \A a \in Range(faces), b \in Range(faces) :
            Associated(a, b) => TrackOf(a) = TrackOf(b)

(***************************************************************************)
(* C11, amended: a detection is appended to the first track, in creation   *)
(* order, that is eligible for it, whenever there is one, and the other    *)
(* tracks are left as they are; two detections that are the whole input    *)
(* and meet both thresholds end in the same track.                         *)
(***************************************************************************)
C11_FirstEligibleTakes ==
    /\ [][TakingFace =>
            LET face == faces[n_grouped + 1]
                E == {k \in 1..Len(tracks) : Eligible(tracks[k], face)}
            IN  E # {} =>
                  LET k == CHOOSE m \in E : \A n \in E : m <= n
                  IN  /\ Len(tracks') = Len(tracks)
                      /\ tracks'[k].boxes = Append(tracks[k].boxes, face)
                      /\ \A j \in 1..Len(tracks) : j # k => tracks'[j] = tracks[j]
         ]_vars
    /\ [](Returned("tracker") /\ Len(faces) = 2 /\ Associated(faces[1], faces[2])
            => TrackOf(faces[1]) = TrackOf(faces[2]))

\* Two tracks were eligible for the third detection and the first took it:
\* the detection and the box of the second track meet both thresholds.
C11_Witness ==
    /\ Returned("tracker")
    /\ Len(tracks) = 2
    /\ Len(tracks[1].boxes) = 2
    /\ Len(tracks[2].boxes) = 1
    /\ tracks[2].boxes[1].timestamp < tracks[1].boxes[2].timestamp
    /\ Associated(tracks[2].boxes[1], tracks[1].boxes[2])
    /\ Associated(tracks[1].boxes[1], tracks[1].boxes[2])

(***************************************************************************)
(* C12: a detection for which no track is eligible starts a new track,     *)
(* and the track ids are strictly increasing in creation order, pairwise   *)
(* distinct, and an id once given is neither changed nor given again.      *)
(***************************************************************************)
C12_FreshTrack ==
    [][mode = "tracker" =>
         /\ (TakingFace /\ \A k \in 1..Len(tracks) :
                               Ineligible(tracks[k], faces[n_grouped + 1]))
               => /\ Len(tracks') = Len(tracks) + 1
                  /\ tracks'[Len(tracks')].boxes = <<faces[n_grouped + 1]>>
         /\ Len(tracks') >= Len(tracks)
         /\ \A k \in 1..Len(tracks) : tracks'[k].track_id = tracks[k].track_id
         /\ \A j \in 1..Len(tracks'), k \in 1..Len(tracks') :
               j < k => tracks'[j].track_id < tracks'[k].track_id
         /\ \A k \in 1..Len(tracks') : tracks'[k].track_id < current_track_id'
      ]_vars

\* Three detections started three tracks, one for a time gap and one for a
\* low IoU.
C12_Witness ==
    /\ Returned("tracker")
    /\ Len(tracks) = 3
    /\ tracks[3].track_id = 2
    /\ \E j \in 1..2 : tracks[3].start_time - tracks[j].end_time > time_thresh
    /\ \E j \in 1..2 : tracks[3].start_time - tracks[j].end_time <= time_thresh

(***************************************************************************)
(* The crop planner, Components/video_processor.py: its Python floats      *)
(* (IEEE 754 binary64, round to nearest, ties to even).                    *)
(*                                                                         *)
(* A natural number is a sequence of NumLimbs limbs below LimbBase, least  *)
(* significant first.  A float is the record [neg, mag]: its value is      *)
(* mag / 2^FracBits, negated when neg.  Every float the planner computes   *)
(* on frames narrower than LimbBase pixels is such a number: it is at      *)
(* least 2^-22 in size when it is not zero and its integer part is below   *)
(* 2^30.  An operation is the exact operation followed by Round53.         *)
(***************************************************************************)
LimbBase == 2^15

LimbBits == 15

NumLimbs == 7

FracLimbs == 5

FracBits == FracLimbs * LimbBits

Significand == 53

Limbs == 1..NumLimbs

\* the sequence of the limbs f[1], ..., f[NumLimbs]
NatOf(f) == SubSeq(f, 1, NumLimbs)

NatZero == NatOf([i \in Limbs |-> 0])

Pow2(k) == 2^k

Limb(a, i) == IF i \in Limbs THEN a[i] ELSE 0

\* the bit of weight 2^k
Bit(a, k) == (Limb(a, (k \div LimbBits) + 1) \div Pow2(k % LimbBits)) % 2

\* some bit of weight below 2^k is set
AnyBitBelow(a, k) ==
    \/ \E i \in Limbs : i <= k \div LimbBits /\ a[i] # 0
    \/ (Limb(a, (k \div LimbBits) + 1) % Pow2(k % LimbBits)) # 0

\* the number of bits of a: 0 for zero
RECURSIVE LimbLen(_)
LimbLen(v) == IF v = 0 THEN 0 ELSE 1 + LimbLen(v \div 2)

BitLen(a) ==
    IF a = NatZero THEN 0
    ELSE LET top == CHOOSE i \in Limbs :
                        a[i] # 0 /\ \A j \in Limbs : j > i => a[j] = 0
         IN  (top - 1) * LimbBits + LimbLen(a[top])

\* -1, 0, 1 as a < b, a = b, a > b
NatCmp(a, b) ==
    IF a = b THEN 0
    ELSE LET top == CHOOSE i \in Limbs :
                        a[i] # b[i] /\ \A j \in Limbs : j > i => a[j] = b[j]
         IN  IF a[top] < b[top] THEN 0 - 1 ELSE 1

RECURSIVE AddFrom(_, _, _, _)
AddFrom(a, b, i, carry) ==
    IF i > NumLimbs THEN <<>>
    ELSE LET s == a[i] + b[i] + carry
         IN  <<s % LimbBase>> \o AddFrom(a, b, i + 1, s \div LimbBase)

NatAdd(a, b) == AddFrom(a, b, 1, 0)

\* a - b for a >= b
RECURSIVE SubFrom(_, _, _, _)
SubFrom(a, b, i, borrow) ==
    IF i > NumLimbs THEN <<>>
    ELSE LET d == a[i] - b[i] - borrow
         IN  <<(d + LimbBase) % LimbBase>>
                 \o SubFrom(a, b, i + 1, IF d < 0 THEN 1 ELSE 0)

NatSub(a, b) == SubFrom(a, b, 1, 0)

\* a * n for 0 <= n < LimbBase
RECURSIVE MulFrom(_, _, _, _)
MulFrom(a, n, i, carry) ==
    IF i > NumLimbs THEN <<>>
    ELSE LET p == a[i] * n + carry
         IN  <<p % LimbBase>> \o MulFrom(a, n, i + 1, p \div LimbBase)

NatMulSmall(a, n) == MulFrom(a, n, 1, 0)

\* a * 2^k and floor(a / 2^k)
ShiftLeft(a, k) ==
    LET q == k \div LimbBits
        r == k % LimbBits
    IN  NatOf([i \in Limbs |->
                  ((Limb(a, i - q) * Pow2(r)) % LimbBase)
                      + (Limb(a, i - q - 1) \div Pow2(LimbBits - r))])

ShiftRight(a, k) ==
    LET q == k \div LimbBits
        r == k % LimbBits
    IN  NatOf([i \in Limbs |->
                  (Limb(a, i + q) \div Pow2(r))
                      + ((Limb(a, i + q + 1) % Pow2(r)) * Pow2(LimbBits - r))])

\* the natural number n < LimbBase^2 times 2^FracBits
NatOfInt(n) ==
    NatOf([i \in Limbs |-> IF i = FracLimbs + 1 THEN n % LimbBase
                           ELSE IF i = FracLimbs + 2 THEN n \div LimbBase
                           ELSE 0])

NatOne == NatOf([i \in Limbs |-> IF i = 1 THEN 1 ELSE 0])

NatDouble(a) ==
    NatOf([i \in Limbs |->
              ((2 * a[i]) % LimbBase) + (Limb(a, i - 1) \div (LimbBase \div 2))])

\* round to nearest, ties to even, at Significand bits; sticky says that
\* the exact value is above mag by less than one unit of mag
Round53(mag, sticky) ==
    LET d == BitLen(mag) - Significand
    IN  IF d <= 0 THEN mag
        ELSE LET kept == ShiftLeft(ShiftRight(mag, d), d)
                 up == /\ Bit(mag, d - 1) = 1
                       /\ \/ sticky
                          \/ AnyBitBelow(mag, d - 1)
                          \/ Bit(mag, d) = 1
             IN  IF up THEN NatAdd(kept, ShiftLeft(NatOne, d)) ELSE kept

Float(n, m) == [neg |-> n /\ m # NatZero, mag |-> m]

Abs(n) == IF n < 0 THEN 0 - n ELSE n

\* float(n) for an integer n
FlOfInt(n) == Float(n < 0, NatOfInt(Abs(n)))

FlNeg(a) == Float(~a.neg, a.mag)

\* a + b
FlAdd(a, b) ==
    IF a.neg = b.neg THEN Float(a.neg, Round53(NatAdd(a.mag, b.mag), FALSE))
    ELSE IF NatCmp(a.mag, b.mag) >= 0
         THEN Float(a.neg, Round53(NatSub(a.mag, b.mag), FALSE))
         ELSE Float(b.neg, Round53(NatSub(b.mag, a.mag), FALSE))

\* a - b
FlSub(a, b) == FlAdd(a, FlNeg(b))

\* n * a for an integer n below LimbBase in size
FlMulInt(n, a) ==
    Float(a.neg # (n < 0), Round53(NatMulSmall(a.mag, Abs(n)), FALSE))

\* a < b
FlLt(a, b) ==
    IF a.neg # b.neg THEN a.neg
    ELSE IF a.neg THEN NatCmp(a.mag, b.mag) > 0
    ELSE NatCmp(a.mag, b.mag) < 0

\* int(a): towards zero
FlTrunc(a) ==
    LET ip == ShiftRight(a.mag, FracBits)
        n == ip[1] + LimbBase * ip[2]
    IN  IF a.neg THEN 0 - n ELSE n

\* floor(a / n) and whether a remainder is left, for 0 < n < LimbBase
RECURSIVE DivSmallFrom(_, _, _, _)
DivSmallFrom(a, n, i, rem) ==
    IF i = 0 THEN [q |-> <<>>, sticky |-> rem # 0]
    ELSE LET cur == rem * LimbBase + a[i]
             low == DivSmallFrom(a, n, i - 1, cur % n)
         IN  [q |-> Append(low.q, cur \div n), sticky |-> low.sticky]

\* i / n for integers 0 <= i and 0 < n below LimbBase
FlDivInts(i, n) ==
    LET got == DivSmallFrom(NatOfInt(i), n, NumLimbs, 0)
    IN  Float(FALSE, Round53(got.q, got.sticky))

\* the Significand leading bits of a float's size, as a natural number
Leading(m) ==
    IF BitLen(m) >= Significand THEN ShiftRight(m, BitLen(m) - Significand)
    ELSE ShiftLeft(m, Significand - BitLen(m))

\* the k next bits of the quotient of r by m, r < m, the first bit first,
\* and the remainder left (the k steps are split in halves to keep the
\* recursion shallow)
RECURSIVE DivBits(_, _, _)
DivBits(r, m, k) ==
    IF k = 1
    THEN LET r2 == NatDouble(r)
         IN  IF NatCmp(r2, m) >= 0
             THEN [bits |-> <<1>>, rem |-> NatSub(r2, m)]
             ELSE [bits |-> <<0>>, rem |-> r2]
    ELSE LET first == DivBits(r, m, k \div 2)
             rest == DivBits(first.rem, m, k - (k \div 2))
         IN  [bits |-> first.bits \o rest.bits, rem |-> rest.rem]

\* the natural number of the bits b, the first bit the most significant
RECURSIVE LimbOfBits(_, _, _)
LimbOfBits(b, i, j) ==
    IF j = LimbBits THEN 0
    ELSE LET k == Len(b) - ((i - 1) * LimbBits + j)
         IN  (IF k >= 1 THEN b[k] * Pow2(j) ELSE 0) + LimbOfBits(b, i, j + 1)

NatOfBits(b) == NatOf([i \in Limbs |-> LimbOfBits(b, i, 0)])

\* a / b for b # 0
FlDiv(a, b) ==
    IF a.mag = NatZero THEN Float(FALSE, NatZero)
    ELSE LET m1 == Leading(a.mag)
             m2 == Leading(b.mag)
             ge == NatCmp(m1, m2) >= 0
             got == DivBits(IF ge THEN NatSub(m1, m2) ELSE m1, m2,
                            Significand + 2)
             q == Round53(NatOfBits(<<IF ge THEN 1 ELSE 0>> \o got.bits),
                          got.rem # NatZero)
             shift == FracBits - (Significand + 2) + BitLen(a.mag) - BitLen(b.mag)
         IN  Float(a.neg # b.neg,
                   IF shift >= 0 THEN ShiftLeft(q, shift)
                   ELSE ShiftRight(q, 0 - shift))

(***************************************************************************)
(* The crop planner: VideoProcessor._detect_faces, _get_smart_crop (one    *)
(* call per frame, from process_frame) and process_frame_func, the         *)
(* per-frame function of process_video_segments.                           *)
(*                                                                         *)
(* The face detector's answer on a frame is the record [raises,            *)
(* detections]: process(frame) raises, or results.detections is the list   *)
(* of relative bounding boxes given, whose coordinates are 32nds of the    *)
(* frame.  A face and a crop are tuples <<x, y, w, h>> of pixels.          *)
(***************************************************************************)
history_size == 30

max_movement == 5

MaxFrames == 8   \* most frames of one video

MaxBusy == 2     \* most frames on which the detector finds a face or raises

FrameShapes == {<<16, 256>>, <<16, 16>>, <<16, 8>>}

relative_bounding_box(a, b, c, d) ==
    [xmin |-> FlDivInts(a, 32), ymin |-> FlDivInts(b, 32),
     width |-> FlDivInts(c, 32), height |-> FlDivInts(d, 32)]

LeftFace == relative_bounding_box(0, 0, 1, 4)

RightFace == relative_bounding_box(31, 0, 1, 4)

NoDetections == [raises |-> FALSE, detections |-> <<>>]

DetectorRaises == [raises |-> TRUE, detections |-> <<>>]

DetectorOutcomes ==
    {NoDetections, DetectorRaises}
    \cup {[raises |-> FALSE, detections |-> d] :
            d \in {<<LeftFace>>, <<RightFace>>, <<LeftFace, RightFace>>}}

\* how many of the frames fr kept the detector busy
Busy(fr) == Cardinality({i \in 1..Len(fr) : fr[i] # NoDetections})

\* margin = 0.2
margin == FlDivInts(1, 5)

\* lines 94-109: the face of one detection, in pixels, with its margin
Face(detection, img_height, img_width) ==
    LET x == FlTrunc(FlMulInt(img_width, detection.xmin))
        y == FlTrunc(FlMulInt(img_height, detection.ymin))
        w == FlTrunc(FlMulInt(img_width, detection.width))
        h == FlTrunc(FlMulInt(img_height, detection.height))
        grown == FlAdd(FlOfInt(1), FlMulInt(2, margin))
        x2 == Max(0, FlTrunc(FlSub(FlOfInt(x), FlMulInt(w, margin))))
        y2 == Max(0, FlTrunc(FlSub(FlOfInt(y), FlMulInt(h, margin))))
    IN  <<x2, y2,
          Min(img_width - x2, FlTrunc(FlMulInt(w, grown))),
          Min(img_height - y2, FlTrunc(FlMulInt(h, grown)))>>

\* VideoProcessor._detect_faces on a frame of the shape given: the faces
\* returned, none when the detector raises ("except Exception: return []")
_detect_faces(shape, outcome) ==
    IF outcome.raises THEN <<>>
    ELSE SubSeq([i \in 1..Len(outcome.detections) |->
                    Face(outcome.detections[i], shape[1], shape[2])],
                1, Len(outcome.detections))

\* A clamp that leaves x as it is.
ClampNone(x, hi) == x

\* max(0, min(x, hi))
Clamp(x, hi) == Max(0, Min(x, hi))

\* weights = [i/len(h) for i in range(1, len(h) + 1)]
Weights(n) == SubSeq([i \in 1..n |-> FlDivInts(i, n)], 1, n)

\* acc + terms[lo] + ... + terms[hi], added from left to right (the range
\* is split in halves to keep the recursion shallow)
RECURSIVE SumFrom(_, _, _, _)
SumFrom(acc, terms, lo, hi) ==
    IF lo > hi THEN acc
    ELSE IF lo = hi THEN FlAdd(acc, terms[lo])
    ELSE LET mid == (lo + hi) \div 2
         IN  SumFrom(SumFrom(acc, terms, lo, mid), terms, mid + 1, hi)

\* Python's sum() of a list of floats: added one by one, each addition
\* rounded, as CPython up to 3.11 adds them (no compensated summation)
sum(terms) == SumFrom(FlOfInt(0), terms, 1, Len(terms))

\* lines 171-173: the weighted mean of the history
SmoothX(history) ==
    LET n == Len(history)
        weights == Weights(n)
        total_weight == sum(weights)
        weighted == SubSeq([i \in 1..n |-> FlMulInt(history[i], weights[i])],
                           1, n)
    IN  FlDiv(sum(weighted), total_weight)

\* A step that is not limited.
ActualMovementFree(target_movement) == target_movement

\* max(min(target_movement, max_movement), -max_movement)
ActualMovement(target_movement) ==
    LET least == IF FlLt(FlOfInt(max_movement), target_movement)
                 THEN FlOfInt(max_movement) ELSE target_movement
    IN  IF FlLt(least, FlOfInt(0 - max_movement))
        THEN FlOfInt(0 - max_movement) ELSE least

\* lines 149-151: the median of the centers of the faces found
FaceCenterX(found) ==
    LET face_positions ==
            StableSort([i \in 1..Len(found) |->
                          [key |-> found[i][1] + (found[i][3] \div 2),
                           val |-> found[i][1] + (found[i][3] \div 2)]])
    IN  face_positions[(Len(found) \div 2) + 1]

\* crop_width = int(frame_height * target_ratio), target_ratio = 9/16
CropWidth(frame_height) == FlTrunc(FlMulInt(frame_height, FlDivInts(9, 16)))

\* lines 147-156
TargetX(found, center_x) ==
    IF found # <<>>
    THEN FlTrunc(FlAdd(FlMulInt(center_x, FlDivInts(4, 5)),
                       FlMulInt(FaceCenterX(found), FlDivInts(1, 5))))
    ELSE center_x

\* A test that finds no frame narrow.
NarrowNever(shape) == FALSE

\* "if crop_width >= frame_width": the frame is returned whole and no face
\* is looked for
Narrow(shape) == CropWidth(shape[1]) >= shape[2]

\* line 159: where the crop of this frame alone would be
InitialX(shape, found) ==
    Clamp(TargetX(found, shape[2] \div 2) - (CropWidth(shape[1]) \div 2),
          shape[2] - CropWidth(shape[1]))

\* A history that never drops an entry.
RememberAll(history, initial_x) == Append(history, initial_x)

\* lines 166-168: the history with initial_x, less its oldest entry when it
\* is longer than history_size
Remember(history, initial_x) ==
    IF Len(history) + 1 > history_size
    THEN Tail(Append(history, initial_x))
    ELSE Append(history, initial_x)

\* lines 177-181: current_crop_x after its step towards smooth
Step(current, smooth) ==
    FlAdd(current, ActualMovement(FlSub(smooth, current)))

\* lines 184-186 and the processor's fields at the return
Planned(shape, kept, smooth, moved) ==
    [position_history |-> kept, current_crop_x |-> <<moved>>,
     smooth_x |-> <<smooth>>,
     crop |-> <<Clamp(FlTrunc(moved), shape[2] - CropWidth(shape[1])), 0,
                CropWidth(shape[1]), shape[1]>>]

\* lines 171-186, from the history kept and the position the step starts at
PlanFrom(shape, kept, smooth, started) ==
    Planned(shape, kept, smooth, Step(started, smooth))

\* lines 162-186
PlanAt(shape, history, current, initial_x) ==
    PlanFrom(shape, Remember(history, initial_x),
             SmoothX(Remember(history, initial_x)),
             IF current = <<>> THEN FlOfInt(initial_x) ELSE current[1])

\* VideoProcessor._get_smart_crop on a frame of the shape given where
\* _detect_faces returns found: the processor's fields after the call,
\* smooth_x and the crop returned
_get_smart_crop(shape, found, history, current) ==
    IF Narrow(shape)
    THEN [position_history |-> history, current_crop_x |-> current,
          smooth_x |-> <<>>, crop |-> <<0, 0, shape[2], shape[1]>>]
    ELSE PlanAt(shape, history, current, InitialX(shape, found))

\* lines 349-356: target_width and target_height of a clip
TargetSize(shape) ==
    IF shape[2] > shape[1]
    THEN <<FlTrunc(FlDivInts(shape[1] * 9, 16)), shape[1]>>
    ELSE <<shape[2], FlTrunc(FlDivInts(shape[2] * 16, 9))>>

\* int(np.mean([face[0] + face[2]/2 for face in faces]))
MeanCenterX(found) ==
    LET centers == SubSeq([i \in 1..Len(found) |->
                             FlAdd(FlOfInt(found[i][1]),
                                   FlDivInts(found[i][3], 2))],
                          1, Len(found))
    IN  FlTrunc(FlDiv(sum(centers), FlOfInt(Len(found))))

\* process_frame_func on a frame of the shape given where _detect_faces
\* returns found: the crop <<x, y, w, h>>
process_frame_func(shape, found) ==
    LET target == TargetSize(shape)
        center_x == IF found # <<>> THEN MeanCenterX(found)
                    ELSE shape[2] \div 2
    IN  <<Clamp(center_x - (target[1] \div 2), shape[2] - target[1]), 0,
          target[1], target[2]>>

InitCrop ==
    /\ mode \in {"smart_crop", "segment"}
    /\ pc = "frame"
    /\ frame_shape \in FrameShapes
    /\ frames = <<>>
    /\ detected = <<>>
    /\ position_history = <<>>
    /\ current_crop_x = <<>>
    /\ smooth_x = <<>>
    /\ crops = <<>>
    /\ HighlightsIdle
    /\ TrackerIdle
    /\ box1 = <<>> /\ box2 = <<>> /\ iou = <<>>
    /\ ScanIdle
    /\ BatchIdle

\* process_frame: one frame through _get_smart_crop
ProcessFrame ==
    /\ mode = "smart_crop"
    /\ pc = "frame"
    /\ Len(frames) < MaxFrames
    /\ \E outcome \in DetectorOutcomes :
          /\ outcome # NoDetections => Busy(frames) < MaxBusy
          /\ \E found \in {_detect_faces(frame_shape, outcome)} :
             \E got \in {_get_smart_crop(frame_shape, found,
                                         position_history, current_crop_x)} :
                /\ frames' = Append(frames, outcome)
                /\ detected' = IF Narrow(frame_shape) THEN detected ELSE found
                /\ position_history' = got.position_history
                /\ current_crop_x' = got.current_crop_x
                /\ smooth_x' = got.smooth_x
                /\ crops' = Append(crops, got.crop)
    /\ UNCHANGED <<mode, pc, frame_shape, highlightVars, trackerVars, iouVars,
                   scanVars, batchVars>>

\* process_video_segments: one frame of a clip through process_frame_func
ProcessFrameFunc ==
    /\ mode = "segment"
    /\ pc = "frame"
    /\ Len(frames) < MaxFrames
    /\ \E outcome \in DetectorOutcomes :
          /\ outcome # NoDetections => Busy(frames) < MaxBusy
          /\ \E found \in {_detect_faces(frame_shape, outcome)} :
                /\ frames' = Append(frames, outcome)
                /\ detected' = found
                /\ crops' = Append(crops,
                                   process_frame_func(frame_shape, found))
    /\ UNCHANGED <<mode, pc, frame_shape, position_history, current_crop_x,
                   smooth_x, highlightVars, trackerVars, iouVars, scanVars,
                   batchVars>>

NextCrop == ProcessFrame \/ ProcessFrameFunc

SpecCrop == InitCrop /\ [][NextCrop]_vars

(***************************************************************************)
(* Claims on the crop planner.                                             *)
(***************************************************************************)
\* the crop x of the i-th frame
CropX(i) == crops[i][1]

NoFaceSoFar == \A i \in 1..Len(frames) : frames[i] = NoDetections

\* C14: between two consecutive frames the crop x moves by at most
\* max_movement pixels, in _get_smart_crop and in process_frame_func,
\* whatever faces are detected.
C14_VelocityBound ==
    mode \in {"smart_crop", "segment"} =>
        \A i \in 1..(Len(crops) - 1) :
            Abs(CropX(i + 1) - CropX(i)) <= max_movement

\* C15: on every frame the crop x is at least 0 and at most the frame's
\* width less the crop's width, in _get_smart_crop and in
\* process_frame_func.
C15_CropInsideFrame ==
    mode \in {"smart_crop", "segment"} =>
        \A i \in 1..Len(crops) :
            /\ 0 <= CropX(i)
            /\ CropX(i) <= frame_shape[2] - crops[i][3]

\* A face at the right edge of a square clip: the center of the face less
\* half the crop's width is beyond the last x the crop can take.
C15_Witness ==
    /\ mode = "segment"
    /\ frame_shape = <<16, 16>>
    /\ crops # <<>>
    /\ detected # <<>>
    /\ MeanCenterX(detected) - (crops[Len(crops)][3] \div 2)
          > frame_shape[2] - crops[Len(crops)][3]
    /\ CropX(Len(crops)) = frame_shape[2] - crops[Len(crops)][3]

\* C16: while the size of the frames is fixed and no face is detected on
\* any frame, _get_smart_crop returns one and the same x on every frame,
\* the x of the centered crop, (frame_width - crop_width) / 2 to the pixel.
C16_StillWithoutFaces ==
    (mode = "smart_crop" /\ NoFaceSoFar) =>
        \A i \in 1..Len(crops) :
            /\ CropX(i) = CropX(1)
            /\ Abs(2 * CropX(i) - (frame_shape[2] - crops[i][3])) <= 1

\* C17: on every frame after the first one _get_smart_crop moves
\* current_crop_x towards smooth_x by the smaller of their distance and
\* max_movement, in float arithmetic: by max_movement when smooth_x is more
\* than max_movement away, by smooth_x - current_crop_x otherwise, and never
\* away from smooth_x; from 100 with smooth_x 200 it goes to 105.
C17_StepTowardTarget ==
    /\ [][(mode = "smart_crop" /\ current_crop_x # <<>>
             /\ current_crop_x' # current_crop_x) =>
            LET current == current_crop_x[1]
                smooth == smooth_x'[1]
                moved == current_crop_x'[1]
                distance == FlSub(smooth, current)
            IN  /\ IF FlLt(FlOfInt(max_movement), distance)
                   THEN moved = FlAdd(current, FlOfInt(max_movement))
                   ELSE IF FlLt(distance, FlOfInt(0 - max_movement))
                   THEN moved = FlSub(current, FlOfInt(max_movement))
                   ELSE moved = FlAdd(current, distance)
                /\ FlLt(current, smooth) => ~FlLt(moved, current)
                /\ FlLt(smooth, current) => ~FlLt(current, moved)]_vars
    /\ [](FlAdd(FlOfInt(100),
                ActualMovement(FlSub(FlOfInt(200), FlOfInt(100))))
            = FlOfInt(105))

\* The crop has just moved by max_movement and smooth_x is still more than
\* a pixel ahead: the step was cut to max_movement.
C17_Witness ==
    /\ mode = "smart_crop"
    /\ Len(crops) >= 2
    /\ CropX(Len(crops)) - CropX(Len(crops) - 1) = max_movement
    /\ FlLt(FlAdd(current_crop_x[1], FlOfInt(1)), smooth_x[1])

(***************************************************************************)
(* A pass over a video: FaceDetector.detect_faces and crop_to_face,        *)
(* Components/media/face_detector.py.                                      *)
(*                                                                         *)
(* scan_call is the record [fn, opens, frames, grouping]: the method; what *)
(* cv2.VideoCapture(video_path) does ("opened", "not_opened": isOpened()   *)
(* is False, "raises"); for each frame the decoder delivers, "face" (one   *)
(* detection, or a frame of the track written), "none" or "raises" (the    *)
(* detector, or the writer, raises on it); and whether _group_face_tracks  *)
(* raises at the return.  The frames of the track of crop_to_face are the  *)
(* frames start_frame to end_frame: those that are not "none", which       *)
(* follow one another; a track without a frame in the video lies after     *)
(* its end.  cap is "unbound" until cv2.VideoCapture has returned, then    *)
(* "closed", "open" or "released".                                         *)
(***************************************************************************)
MaxScanFrames == 3

FrameEvents == {"none", "face", "raises"}

\* the frames of the video that are frames of the track
TrackFrames(call) ==
    {i \in 1..Len(call.frames) : call.frames[i] # "none"}

ScanCalls ==
    {c \in [fn : {"detect_faces", "crop_to_face"},
            opens : {"opened", "not_opened", "raises"},
            frames : SeqsUpTo(FrameEvents, MaxScanFrames),
            grouping : {"ok", "raises"}] :
        /\ c.fn = "crop_to_face" =>
              /\ c.grouping = "ok"
              /\ \A i, j \in TrackFrames(c) :
                    \A k \in i..j : k \in TrackFrames(c)
        /\ c.opens # "opened" => (c.frames = <<>> /\ c.grouping = "ok")}

\* end_frame = int(track.end_time * fps), counted from 0 as frame_idx is
end_frame(call) ==
    IF TrackFrames(call) = {} THEN Len(call.frames)
    ELSE (CHOOSE i \in TrackFrames(call) :
             \A j \in TrackFrames(call) : j <= i) - 1

\* "if frame_idx > end_frame: break", lines 389-390 of crop_to_face
PastTrack(call, idx) == call.fn = "crop_to_face" /\ idx > end_frame(call)

InitScan ==
    /\ mode = "scan"
    /\ pc = "open"
    /\ scan_call \in ScanCalls
    /\ cap = "unbound"
    /\ frame_idx = 0
    /\ frame_faces = <<>>
    /\ raised = "none"
    /\ HighlightsIdle
    /\ TrackerIdle
    /\ box1 = <<>> /\ box2 = <<>> /\ iou = <<>>
    /\ CropIdle
    /\ BatchIdle

\* what stays as it is during a pass
scanFrame == <<mode, scan_call, highlightVars, trackerVars, iouVars, cropVars,
               batchVars>>

\* cap = cv2.VideoCapture(video_path); if not cap.isOpened(): raise
OpenVideo ==
    /\ mode = "scan"
    /\ pc = "open"
    /\ cap' = CASE scan_call.opens = "raises" -> "unbound"
                [] scan_call.opens = "not_opened" -> "closed"
                [] OTHER -> "open"
    /\ pc' = IF scan_call.opens = "opened" THEN "scan" ELSE "except"
    /\ UNCHANGED <<frame_idx, frame_faces, raised, scanFrame>>

\* one turn of "while cap.isOpened()": the next frame, or the break at the
\* end of the video; crop_to_face also leaves the loop once frame_idx, that
\* the turn before has increased, is past the track
ReadFrame ==
    /\ mode = "scan"
    /\ pc = "scan"
    /\ IF frame_idx = Len(scan_call.frames) \/ PastTrack(scan_call, frame_idx)
       THEN /\ pc' = "close"
            /\ UNCHANGED <<frame_idx, frame_faces>>
       ELSE IF scan_call.frames[frame_idx + 1] = "raises"
       THEN /\ pc' = "except"
            /\ UNCHANGED <<frame_idx, frame_faces>>
       ELSE /\ frame_faces' =
                  Append(frame_faces,
                         IF scan_call.frames[frame_idx + 1] = "face"
                         THEN 1 ELSE 0)
            /\ frame_idx' = frame_idx + 1
            /\ UNCHANGED pc
    /\ UNCHANGED <<cap, raised, scanFrame>>

\* "cap.release()" after the loop, then the return value is computed
CloseResources ==
    /\ mode = "scan"
    /\ pc = "close"
    /\ cap' = "released"
    /\ pc' = IF scan_call.grouping = "raises" THEN "except" ELSE "finally"
    /\ UNCHANGED <<frame_idx, frame_faces, raised, scanFrame>>

\* "except Exception as e: raise MediaError(...)"
HandleError ==
    /\ mode = "scan"
    /\ pc = "except"
    /\ raised' = "MediaError"
    /\ pc' = "finally"
    /\ UNCHANGED <<cap, frame_idx, frame_faces, scanFrame>>

\* "finally: if cap is not None: cap.release()": reading cap raises
\* UnboundLocalError when cv2.VideoCapture has not returned
Finally ==
    /\ mode = "scan"
    /\ pc = "finally"
    /\ IF cap = "unbound"
       THEN /\ raised' = "UnboundLocalError"
            /\ pc' = "raised"
            /\ UNCHANGED cap
       ELSE /\ cap' = "released"
            /\ pc' = IF raised = "none" THEN "returned" ELSE "raised"
            /\ UNCHANGED raised
    /\ UNCHANGED <<frame_idx, frame_faces, scanFrame>>

NextScan ==
    OpenVideo \/ ReadFrame \/ CloseResources \/ HandleError \/ Finally

SpecScan == InitScan /\ [][NextScan]_vars

\* the pass has ended
ScanEnded == mode = "scan" /\ pc \in {"returned", "raised"}

\* C18: when the face detector raises on a frame, the frame contributes no
\* detection and the pass goes on with the next frames: a pass of
\* detect_faces over a video that opens, whose grouping does not raise,
\* reads every frame and returns.
C18_DetectorErrorSkipsFrame ==
    (/\ ScanEnded
     /\ scan_call.fn = "detect_faces"
     /\ scan_call.opens = "opened"
     /\ scan_call.grouping = "ok") =>
        /\ pc = "returned"
        /\ frame_idx = Len(scan_call.frames)
        /\ \A i \in 1..Len(scan_call.frames) :
              scan_call.frames[i] = "raises" => frame_faces[i] = 0

\* C19: at the end of a pass of detect_faces or crop_to_face the decoder
\* handle, when there is one, is released, and the pass has returned or
\* raises MediaError: the release step raises no other error.
C19_HandleReleased ==
    ScanEnded =>
        /\ cap \in {"unbound", "released"}
        /\ raised \in {"none", "MediaError"}

(***************************************************************************)
(* A batch run: main, main.py, from the VideoManager it has constructed    *)
(* to the end of its loop over unprocessed_videos, with                    *)
(* VideoManager.add_video and mark_as_processed,                           *)
(* Components/video_manager.py.                                            *)
(*                                                                         *)
(* A video of VideoManager.videos is the record [video_id, processed,      *)
(* failed, error, processed_at]; processed_at tells whether a time is set. *)
(* What process_video meets on a video is "ok", "no_highlights" or         *)
(* "exception" (an exception inside its try block).  A call of _save_db    *)
(* ends in one of three ways: "ok"; "open", open(db_file, 'w') raises and  *)
(* the file is as it was; "write", the file was opened, and so emptied,    *)
(* and json.dump raises: what the file holds is not JSON.                  *)
(***************************************************************************)
MaxVideos == 3

VideoIds == {"v1", "v2", "v3"}

ProcessOutcomes == {"ok", "no_highlights", "exception"}

SaveOutcomes == {"ok", "open", "write"}

\* Python's None, where a string can stand
None == "<None>"

\* the database file: the videos json.dump has written, or no JSON
Database(vs) == [json |-> TRUE, videos |-> vs]

NotJSON == [json |-> FALSE, videos |-> <<>>]

\* VideoManager._save_db, lines 76-86: the database file after the call
_save_db(vs, db, save) ==
    IF save = "ok" THEN Database(vs)
    ELSE IF save = "open" THEN db
    ELSE NotJSON

VideoMetadata(id) ==
    [video_id |-> id, processed |-> FALSE, failed |-> FALSE, error |-> None,
     processed_at |-> FALSE]

\* main.process_video: True when the video was processed, False when no
\* highlight was found (line 88) or an exception was caught (line 104)
process_video(outcome) == outcome = "ok"

\* "video_id in self.videos"
Known(vs, id) == \E i \in 1..Len(vs) : vs[i].video_id = id

\* A test of the message that only asks whether one was given.
TruthyGiven(error) == error # None

\* "if error:": neither None nor the empty string
Truthy(error) == error \notin {None, ""}

\* lines 160-168: the video marked in self.videos
Marked(v, error) ==
    [v EXCEPT !.processed = TRUE, !.processed_at = TRUE,
              !.failed = IF Truthy(error) THEN TRUE ELSE @,
              !.error = IF Truthy(error) THEN error ELSE @]

\* VideoManager.mark_as_processed(video_id, error) where _save_db ends as
\* save tells: self.videos and the database file after the call, and str(e)
\* of the VideoManagerError raised, "" when none is
mark_as_processed(vs, db, id, error, save) ==
    IF ~Known(vs, id)
    THEN [videos |-> vs, db_file |-> db, raises |-> "Failed to mark video"]
    ELSE LET marked == [i \in 1..Len(vs) |->
                          IF vs[i].video_id = id THEN Marked(vs[i], error)
                          ELSE vs[i]]
         IN  [videos |-> marked,
              db_file |-> _save_db(marked, db, save),
              raises |-> IF save = "ok" THEN "" ELSE "Failed to mark video"]

\* "self.videos[video_id] = VideoMetadata(...)": a known key keeps its place
Stored(vs, id) ==
    IF Known(vs, id)
    THEN [i \in 1..Len(vs) |->
             IF vs[i].video_id = id THEN VideoMetadata(id) ELSE vs[i]]
    ELSE Append(vs, VideoMetadata(id))

\* VideoManager.add_video(video_id, ...) where _save_db ends as save tells
add_video(vs, db, id, save) ==
    [videos |-> Stored(vs, id),
     db_file |-> _save_db(Stored(vs, id), db, save),
     raises |-> save # "ok"]

\* lines 132-135: the video is unprocessed and its file exists
Unprocessed(v, fs) == ~v.processed /\ ~v.failed /\ v.video_id \in fs

\* the ids of the videos vs[i..] that are unprocessed, in order
RECURSIVE UnprocessedFrom(_, _, _)
UnprocessedFrom(vs, fs, i) ==
    IF i > Len(vs) THEN <<>>
    ELSE IF Unprocessed(vs[i], fs)
         THEN <<vs[i].video_id>> \o UnprocessedFrom(vs, fs, i + 1)
         ELSE UnprocessedFrom(vs, fs, i + 1)

\* VideoManager.get_unprocessed_videos(): the video_id of each tuple
\* returned
get_unprocessed_videos(vs, fs) == UnprocessedFrom(vs, fs, 1)

\* the sequences of videos, no video twice
DistinctVideos ==
    {s \in SeqsUpTo(VideoIds, MaxVideos) :
        \A i, j \in 1..Len(s) : s[i] = s[j] => i = j}

batchFrame == <<mode, returned, last_call, ever_marked, pending,
                highlightVars, trackerVars, iouVars, cropVars, scanVars>>

\* main line 109: the VideoManager has loaded the database file, whose
\* videos are not processed and have their files
InitBatch ==
    /\ mode = "batch"
    /\ pc = "start"
    /\ \E s \in DistinctVideos :
          /\ videos = [i \in 1..Len(s) |-> VideoMetadata(s[i])]
          /\ files = {s[i] : i \in 1..Len(s)}
    /\ db_file = Database(videos)
    /\ new_videos = <<>>
    /\ unprocessed_videos = <<>>
    /\ attempted = <<>>
    /\ met = <<>>
    /\ clips = {}
    /\ returned = <<>>
    /\ last_call = <<>>
    /\ ever_marked = {}
    /\ pending = {}
    /\ HighlightsIdle
    /\ TrackerIdle
    /\ box1 = <<>> /\ box2 = <<>> /\ iou = <<>>
    /\ CropIdle
    /\ ScanIdle

\* lines 112-114: the local videos first; the scraper when there is none
ListLocalVideos ==
    /\ mode = "batch"
    /\ pc = "start"
    /\ unprocessed_videos' = get_unprocessed_videos(videos, files)
    /\ pc' = IF get_unprocessed_videos(videos, files) # <<>> THEN "loop"
             ELSE "fetch"
    /\ UNCHANGED <<videos, db_file, new_videos, attempted, met, clips, files,
                   batchFrame>>

\* lines 118-129: scraper.fetch_new_videos(); main returns when it offers
\* no video
FetchNewVideos ==
    /\ mode = "batch"
    /\ pc = "fetch"
    /\ \E offered \in DistinctVideos :
          /\ new_videos' = offered
          /\ pc' = IF offered = <<>> THEN "returned" ELSE "download"
    /\ UNCHANGED <<videos, db_file, unprocessed_videos, attempted, met, clips,
                   files, batchFrame>>

\* lines 132-145: one turn of "for video in new_videos"; download_video
\* returns the path of the file it has written, or None, and the
\* VideoManagerError of an add_video that could not save is passed over
DownloadVideo ==
    /\ mode = "batch"
    /\ pc = "download"
    /\ new_videos # <<>>
    /\ \E downloaded \in BOOLEAN, save \in SaveOutcomes :
          /\ ~downloaded => save = "ok"
          /\ IF downloaded
             THEN /\ files' = files \cup {Head(new_videos)}
                  /\ videos' = add_video(videos, db_file, Head(new_videos),
                                         save).videos
                  /\ db_file' = add_video(videos, db_file, Head(new_videos),
                                          save).db_file
             ELSE UNCHANGED <<files, videos, db_file>>
    /\ new_videos' = Tail(new_videos)
    /\ UNCHANGED <<pc, unprocessed_videos, attempted, met, clips, batchFrame>>

\* lines 148-152: the list is read again; main returns when it is empty
ListDownloadedVideos ==
    /\ mode = "batch"
    /\ pc = "download"
    /\ new_videos = <<>>
    /\ unprocessed_videos' = get_unprocessed_videos(videos, files)
    /\ pc' = IF get_unprocessed_videos(videos, files) # <<>> THEN "loop"
             ELSE "returned"
    /\ UNCHANGED <<videos, db_file, new_videos, attempted, met, clips, files,
                   batchFrame>>

\* lines 161-172: one turn of "for video_path, video_id in
\* unprocessed_videos"; save1 and save2 tell how _save_db ends in the call
\* of mark_as_processed in the try block and in the one in the except
\* block, which is made only when the first has raised
ProcessNextVideo ==
    /\ mode = "batch"
    /\ pc = "loop"
    /\ Len(attempted) < Len(unprocessed_videos)
    /\ \E outcome \in ProcessOutcomes, save1, save2 \in SaveOutcomes :
          LET video_id == unprocessed_videos[Len(attempted) + 1]
              first == mark_as_processed(
                           videos, db_file, video_id,
                           IF process_video(outcome) THEN None
                           ELSE "Falha no processamento", save1)
              second == mark_as_processed(first.videos, first.db_file,
                                          video_id, first.raises, save2)
          IN  /\ save1 = "ok" => save2 = "ok"
              /\ attempted' = Append(attempted, video_id)
              /\ met' = Append(met, outcome)
              /\ clips' = IF process_video(outcome)
                          THEN clips \cup {video_id} ELSE clips
              /\ IF first.raises = ""
                 THEN /\ videos' = first.videos
                      /\ db_file' = first.db_file
                      /\ UNCHANGED pc
                 ELSE /\ videos' = second.videos
                      /\ db_file' = second.db_file
                      /\ pc' = IF second.raises = "" THEN pc ELSE "aborted"
    /\ UNCHANGED <<new_videos, unprocessed_videos, files, batchFrame>>

\* the loop has taken every video: main returns
BatchReturn ==
    /\ mode = "batch"
    /\ pc = "loop"
    /\ Len(attempted) = Len(unprocessed_videos)
    /\ pc' = "returned"
    /\ UNCHANGED <<mode, batchVars, highlightVars, trackerVars, iouVars,
                   cropVars, scanVars>>

NextBatch ==
    \/ ListLocalVideos
    \/ FetchNewVideos
    \/ DownloadVideo
    \/ ListDownloadedVideos
    \/ ProcessNextVideo
    \/ BatchReturn

SpecBatch == InitBatch /\ [][NextBatch]_vars

\* C20: a failure on one video does not stop the batch: when main ends,
\* process_video has been called on every video of unprocessed_videos,
\* in order.
C20_BatchContinues ==
    (mode = "batch" /\ pc \in {"returned", "aborted"}) =>
        attempted = unprocessed_videos

\* what is recorded for a video, its name apart
Recorded(v) == <<v.processed, v.failed, v.error, v.processed_at>>

\* C21: a video without highlights has no output clip, and what is recorded
\* for it differs from what is recorded for a video whose processing raised
\* an error.
C21_NoHighlightsDistinct ==
    mode = "batch" =>
        \A i \in 1..Len(met) :
            met[i] = "no_highlights" =>
                /\ attempted[i] \notin clips
                /\ \A j \in 1..Len(met) :
                      met[j] = "exception" =>
                          Recorded(videos[i]) # Recorded(videos[j])

(***************************************************************************)
(* The VideoManager under calls in any order: add_video,                   *)
(* mark_as_processed, scan_videos_directory and get_unprocessed_videos,    *)
(* Components/video_manager.py.                                            *)
(*                                                                         *)
(* The file of a video is named after its id; files is the set of videos   *)
(* whose file exists in videos_dir.  A call is the record [n, fn,          *)
(* video_id, error, known, raises]: the n-th call, of the method fn, its   *)
(* arguments (error None when none is given), whether video_id was in      *)
(* self.videos before it, and whether it raised VideoManagerError.         *)
(***************************************************************************)
MaxCalls == 4

ErrorMessages == {"", "Test error"}

Call(n, fn, id, error, known, raises) ==
    [n |-> n, fn |-> fn, video_id |-> id, error |-> error, known |-> known,
     raises |-> raises]

\* lines 182-191 from the i-th file of the directory listing on; saves
\* tells how the _save_db of each add_video still to come ends, and the
\* first that raises ends the scan
RECURSIVE ScanFrom(_, _, _, _, _)
ScanFrom(vs, db, listing, i, saves) ==
    IF i > Len(listing) THEN [videos |-> vs, db_file |-> db, raises |-> FALSE]
    ELSE IF Known(vs, listing[i]) THEN ScanFrom(vs, db, listing, i + 1, saves)
    ELSE IF Head(saves) # "ok" THEN add_video(vs, db, listing[i], Head(saves))
    ELSE ScanFrom(add_video(vs, db, listing[i], "ok").videos,
                  add_video(vs, db, listing[i], "ok").db_file,
                  listing, i + 1, Tail(saves))

\* VideoManager.scan_videos_directory() where glob yields the files in the
\* order of listing
scan_videos_directory(vs, db, listing, saves) ==
    ScanFrom(vs, db, listing, 1, saves)

\* the orders in which glob("*.mp4") can yield the files fs
Listings(fs) ==
    {s \in SeqsUpTo(fs, Cardinality(fs)) :
        /\ Len(s) = Cardinality(fs)
        /\ \A i, j \in 1..Len(s) : s[i] = s[j] => i = j}

Ids(vs) == {vs[i].video_id : i \in 1..Len(vs)}

InitManager ==
    /\ mode = "manager"
    /\ pc = "ready"
    /\ videos = <<>>
    /\ db_file = Database(<<>>)
    /\ new_videos = <<>>
    /\ files \in SUBSET VideoIds
    /\ returned = <<>>
    /\ last_call = Call(0, "__init__", None, None, FALSE, FALSE)
    /\ ever_marked = {}
    /\ pending = {}
    /\ unprocessed_videos = <<>>
    /\ attempted = <<>>
    /\ met = <<>>
    /\ clips = {}
    /\ HighlightsIdle
    /\ TrackerIdle
    /\ box1 = <<>> /\ box2 = <<>> /\ iou = <<>>
    /\ CropIdle
    /\ ScanIdle

managerFrame == <<mode, pc, files, new_videos, unprocessed_videos, attempted,
                  met, clips, highlightVars, trackerVars, iouVars, cropVars, scanVars>>

CanCall == mode = "manager" /\ pc = "ready" /\ last_call.n < MaxCalls

AddVideo ==
    /\ CanCall
    /\ \E id \in VideoIds, save \in SaveOutcomes :
          /\ videos' = add_video(videos, db_file, id, save).videos
          /\ db_file' = add_video(videos, db_file, id, save).db_file
          /\ last_call' = Call(last_call.n + 1, "add_video", id, None,
                               Known(videos, id), save # "ok")
          /\ pending' = pending \cup {id}
    /\ UNCHANGED <<returned, ever_marked, managerFrame>>

MarkAsProcessed ==
    /\ CanCall
    /\ \E id \in VideoIds, error \in ErrorMessages \cup {None},
          save \in SaveOutcomes :
          /\ videos' = mark_as_processed(videos, db_file, id, error,
                                         save).videos
          /\ db_file' = mark_as_processed(videos, db_file, id, error,
                                          save).db_file
          /\ last_call' = Call(last_call.n + 1, "mark_as_processed", id,
                               error, Known(videos, id),
                               mark_as_processed(videos, db_file, id, error,
                                                 save).raises # "")
          /\ ever_marked' = IF Known(videos, id) THEN ever_marked \cup {id}
                            ELSE ever_marked
          /\ pending' = IF Known(videos, id) THEN pending \ {id} ELSE pending
    /\ UNCHANGED <<returned, managerFrame>>

\* how the saves of a scan that finds n new files can end: one outcome
\* for each, none after the first that raises
ScanSaves(n) ==
    {ss \in SeqsUpTo(SaveOutcomes, n) :
        /\ \A i \in 1..(Len(ss) - 1) : ss[i] = "ok"
        /\ Len(ss) < n => (ss # <<>> /\ ss[Len(ss)] # "ok")}

ScanVideosDirectory ==
    /\ CanCall
    /\ \E listing \in Listings(files) :
       \E saves \in ScanSaves(Cardinality(files \ Ids(videos))) :
          /\ videos' = scan_videos_directory(videos, db_file, listing,
                                             saves).videos
          /\ db_file' = scan_videos_directory(videos, db_file, listing,
                                              saves).db_file
          /\ last_call' = Call(last_call.n + 1, "scan_videos_directory",
                               None, None, FALSE,
                               scan_videos_directory(videos, db_file, listing,
                                                     saves).raises)
          /\ pending' = pending \cup
                (Ids(scan_videos_directory(videos, db_file, listing,
                                           saves).videos) \ Ids(videos))
    /\ UNCHANGED <<returned, ever_marked, managerFrame>>

GetUnprocessedVideos ==
    /\ CanCall
    /\ returned' = get_unprocessed_videos(videos, files)
    /\ last_call' = Call(last_call.n + 1, "get_unprocessed_videos", None,
                         None, FALSE, FALSE)
    /\ UNCHANGED <<videos, db_file, ever_marked, pending, managerFrame>>

NextManager ==
    AddVideo \/ MarkAsProcessed \/ ScanVideosDirectory \/ GetUnprocessedVideos

SpecManager == InitManager /\ [][NextManager]_vars

\* get_unprocessed_videos has just returned
Answered == mode = "manager" /\ last_call.fn = "get_unprocessed_videos"

\* the sequence s holds each element of the set S once and nothing else
ExactlyOnce(s, S) ==
    /\ {s[i] : i \in 1..Len(s)} = S
    /\ \A i, j \in 1..Len(s) : s[i] = s[j] => i = j

\* C22: get_unprocessed_videos returns one entry for each video added and
\* not marked as processed, and none for a video marked as processed.
\* Fails for a video whose file is not in the videos directory.
C22_ReturnsEveryPending == Answered => ExactlyOnce(returned, pending)

\* the video of self.videos with the id given
VideoOf(id) == videos[CHOOSE i \in 1..Len(videos) : videos[i].video_id = id]

\* mark_as_processed has just been called on a known video
JustMarked ==
    mode = "manager" /\ last_call.fn = "mark_as_processed" /\ last_call.known

\* C23: after mark_as_processed(id) on a known video the video is processed
\* and processed_at is set; after mark_as_processed(id, error=msg) it is also
\* failed and its error is msg, whatever the message.
C23_MarkRecordsOutcome ==
    JustMarked =>
        /\ VideoOf(last_call.video_id).processed
        /\ VideoOf(last_call.video_id).processed_at
        /\ last_call.error # None =>
              /\ VideoOf(last_call.video_id).failed
              /\ VideoOf(last_call.video_id).error = last_call.error

\* C30: a video that was marked as processed is not returned by
\* get_unprocessed_videos afterwards, whatever was called in between.
C30_ProcessedNeverReturned ==
    Answered => \A i \in 1..Len(returned) : returned[i] \notin ever_marked

(***************************************************************************)
(* C24: in every track that _group_face_tracks returns, the boxes are in   *)
(* non-decreasing order of timestamp, and two consecutive boxes are at     *)
(* most time_thresh apart with an IoU of at least iou_thresh.              *)
(***************************************************************************)
C24_TrackChained ==
    Returned("tracker") =>
        \A k \in 1..Len(tracks) :
            \A j \in 1..(Len(tracks[k].boxes) - 1) :
                LET a == tracks[k].boxes[j]
                    b == tracks[k].boxes[j + 1]
                IN  /\ a.timestamp <= b.timestamp
                    /\ b.timestamp - a.timestamp <= time_thresh
                    /\ ~_calculate_iou(BoxOf(a), BoxOf(b)).raises
                    /\ RatioGe(_calculate_iou(BoxOf(a), BoxOf(b)), iou_thresh)

\* A track of three boxes was returned for detections that were not handed
\* in in order of time, among them two boxes that differ.
C24_Witness ==
    /\ Returned("tracker")
    /\ \E k \in 1..Len(tracks) :
          /\ Len(tracks[k].boxes) = 3
          /\ tracks[k].boxes[1].det # 1
          /\ tracks[k].boxes[1].timestamp < tracks[k].boxes[3].timestamp
          /\ BoxOf(tracks[k].boxes[1]) # BoxOf(tracks[k].boxes[2])

(***************************************************************************)
(* C29: the tracks returned partition the input: every detection is in one *)
(* track, once, the tracks hold as many boxes as there are detections and  *)
(* no track is empty.                                                      *)
(***************************************************************************)
RECURSIVE BoxCount(_, _)
BoxCount(ts, k) ==
    IF k > Len(ts) THEN 0 ELSE Len(ts[k].boxes) + BoxCount(ts, k + 1)

\* where the detection is among the boxes of the tracks
Places(face) ==
    {<<k, j>> \in (1..Len(tracks)) \X (1..Len(faces)) :
        j <= Len(tracks[k].boxes) /\ tracks[k].boxes[j] = face}

C29_TracksPartition ==
    Returned("tracker") =>
        /\ \A i \in 1..Len(faces) : Cardinality(Places(faces[i])) = 1
        /\ BoxCount(tracks, 1) = Len(faces)
        /\ \A k \in 1..Len(tracks) : tracks[k].boxes # <<>>

\* Three detections were returned in two tracks.
C29_Witness ==
    /\ Returned("tracker")
    /\ Len(faces) = 3
    /\ Len(tracks) = 2
    /\ Len(tracks[1].boxes) = 2

(***************************************************************************)
(* C25: on a frame with faces the target x-center is                       *)
(* 0.8 * frame_center + 0.2 * m (as an int), m the median of the faces'    *)
(* horizontal centers: the middle one of an odd number, the mean of the    *)
(* two middle ones of an even number; without a face it is the frame       *)
(* center.  The target is read from the position recorded for the frame,   *)
(* initial_x = max(0, min(target_x - crop_width // 2, ...)).               *)
(***************************************************************************)
SortedCenters(found) ==
    StableSort([i \in 1..Len(found) |->
                  [key |-> found[i][1] + (found[i][3] \div 2),
                   val |-> found[i][1] + (found[i][3] \div 2)]])

\* 0.2 * m for the median m of the sorted centers
MedianShare(sorted) ==
    IF Len(sorted) % 2 = 1
    THEN FlMulInt(sorted[(Len(sorted) \div 2) + 1], FlDivInts(1, 5))
    ELSE FlDiv(FlMulInt(sorted[Len(sorted) \div 2]
                          + sorted[(Len(sorted) \div 2) + 1],
                        FlDivInts(1, 5)),
               FlOfInt(2))

MedianTargetX(found, center_x) ==
    IF found = <<>> THEN center_x
    ELSE FlTrunc(FlAdd(FlMulInt(center_x, FlDivInts(4, 5)),
                       MedianShare(SortedCenters(found))))

C25_MedianTarget ==
    (mode = "smart_crop" /\ frames # <<>> /\ ~Narrow(frame_shape)) =>
        position_history[Len(position_history)]
            = Clamp(MedianTargetX(detected, frame_shape[2] \div 2)
                        - (CropWidth(frame_shape[1]) \div 2),
                    frame_shape[2] - CropWidth(frame_shape[1]))

(***************************************************************************)
(* C27: on a frame that is already narrower than 9:16,                     *)
(* int(frame_height * 9/16) >= frame_width, _get_smart_crop returns the    *)
(* whole frame and leaves current_crop_x and position_history as they      *)
(* are, whatever they hold.                                                *)
(***************************************************************************)
C27_NarrowFrameWhole ==
    /\ [][(mode = "smart_crop"
             /\ CropWidth(frame_shape[1]) >= frame_shape[2])
            => /\ crops'[Len(crops')]
                     = <<0, 0, frame_shape[2], frame_shape[1]>>
               /\ position_history' = position_history
               /\ current_crop_x' = current_crop_x
         ]_vars
    /\ [](\A h \in {<<>>, <<3>>, <<3, 7>>},
             c \in {<<>>, <<FlOfInt(3)>>, <<FlDivInts(7, 2)>>} :
             _get_smart_crop(<<16, 8>>, <<>>, h, c)
                 = [position_history |-> h, current_crop_x |-> c,
                    smooth_x |-> <<>>, crop |-> <<0, 0, 8, 16>>])

\* Frames of 8 by 16 pixels went through _get_smart_crop, one of them while
\* the detector would have raised.
C27_Witness ==
    /\ mode = "smart_crop"
    /\ frame_shape = <<16, 8>>
    /\ Len(crops) >= 2
    /\ \E i \in 1..Len(frames) : frames[i] = DetectorRaises

(***************************************************************************)
(* Specification SpecHistory: a run of _get_smart_crop over more frames    *)
(* than the history holds, on frames of 256 by 16 pixels; the detector     *)
(* finds a face, on the right, on MaxSightings frames at most.             *)
(***************************************************************************)
MaxLongRun == 32

MaxSightings == 2

Sightings == {NoDetections, [raises |-> FALSE, detections |-> <<RightFace>>]}

InitHistory ==
    /\ mode = "long_run"
    /\ pc = "frame"
    /\ frame_shape = <<16, 256>>
    /\ frames = <<>>
    /\ detected = <<>>
    /\ position_history = <<>>
    /\ current_crop_x = <<>>
    /\ smooth_x = <<>>
    /\ crops = <<>>
    /\ HighlightsIdle
    /\ TrackerIdle
    /\ box1 = <<>> /\ box2 = <<>> /\ iou = <<>>
    /\ ScanIdle
    /\ BatchIdle

\* process_frame: one frame of the run through _get_smart_crop
ProcessLongRun ==
    /\ mode = "long_run"
    /\ pc = "frame"
    /\ Len(frames) < MaxLongRun
    /\ \E outcome \in Sightings :
          /\ outcome # NoDetections => Busy(frames) < MaxSightings
          /\ \E found \in {_detect_faces(frame_shape, outcome)} :
             \E got \in {_get_smart_crop(frame_shape, found,
                                         position_history, current_crop_x)} :
                /\ frames' = Append(frames, outcome)
                /\ detected' = found
                /\ position_history' = got.position_history
                /\ current_crop_x' = got.current_crop_x
                /\ smooth_x' = got.smooth_x
                /\ crops' = Append(crops, got.crop)
    /\ UNCHANGED <<mode, pc, frame_shape, highlightVars, trackerVars, iouVars,
                   scanVars, batchVars>>

NextHistory == ProcessLongRun

SpecHistory == InitHistory /\ [][NextHistory]_vars

\* the position recorded for the i-th frame of the run
TargetOf(i) == InitialX(frame_shape, _detect_faces(frame_shape, frames[i]))

(***************************************************************************)
(* C26: after any number of frames position_history holds at most          *)
(* history_size entries: the positions of the most recent frames, in the   *)
(* order of the frames.                                                    *)
(***************************************************************************)
C26_HistoryWindow ==
    mode = "long_run" =>
        /\ Len(position_history) = Min(Len(frames), history_size)
        /\ \A j \in 1..Len(position_history) :
              position_history[j]
                  = TargetOf(Len(frames) - Len(position_history) + j)

\* More frames than the history holds went by; the position of a frame
\* with a face was dropped and that of another is still held.
C26_Witness ==
    /\ mode = "long_run"
    /\ Len(frames) > history_size + 1
    /\ Len(position_history) = history_size
    /\ frames[1] # NoDetections
    /\ \E j \in 1..history_size : position_history[j] # position_history[1]

(***************************************************************************)
(* Transcriber.merge_segments, Components/language/transcription.py.       *)
(*                                                                         *)
(* A TranscriptionSegment is the record [text, start, end]; its text is    *)
(* the sequence of the positions, in the list handed in, of the segments   *)
(* whose texts it joins (confidence takes no part in the merging).         *)
(***************************************************************************)
MaxMerged == 3      \* longest list handed to merge_segments

MergeTimes == 0..3

MaxDurations == {1, 2}

TranscriptionSegment(text, start, end) ==
    [text |-> text, start |-> start, end |-> end]

\* A test that lets every segment join the current one.
FitsAlways(current, next_seg, max_duration) == TRUE

\* "if next_seg.end - current.start <= max_duration"
Fits(current, next_seg, max_duration) ==
    next_seg.end - current.start <= max_duration

\* lines 264-278: the loop "for next_seg in segments[1:]" from segs[i] on,
\* and the last append
RECURSIVE MergeFrom(_, _, _, _, _)
MergeFrom(segs, i, current, merged, max_duration) ==
    IF i > Len(segs) THEN Append(merged, current)
    ELSE IF Fits(current, segs[i], max_duration)
         THEN MergeFrom(segs, i + 1,
                        TranscriptionSegment(current.text \o segs[i].text,
                                             current.start, segs[i].end),
                        merged, max_duration)
         ELSE MergeFrom(segs, i + 1, segs[i], Append(merged, current),
                        max_duration)

merge_segments(segs, max_duration) ==
    IF segs = <<>> THEN <<>>
    ELSE MergeFrom(segs, 2, segs[1], <<>>, max_duration)

\* the lists of segments ordered by time
MergeInputs ==
    {[i \in 1..Len(ts) |-> TranscriptionSegment(<<i>>, ts[i][1], ts[i][2])] :
        ts \in {s \in SeqsUpTo(MergeTimes \X MergeTimes, MaxMerged) :
                   /\ \A i \in 1..Len(s) : s[i][1] <= s[i][2]
                   /\ \A i \in 1..(Len(s) - 1) : s[i][1] <= s[i + 1][1]}}

InitMerge ==
    /\ mode = "merge"
    /\ pc = "call"
    /\ segments \in MergeInputs
    /\ \E d \in MaxDurations : params = [NoParams EXCEPT !.max_duration = d]
    /\ max_segments = DefaultMaxSegments
    /\ chunks = <<>>
    /\ oracle = <<>>
    /\ all_highlights = <<>>
    /\ result = <<>>
    /\ MediaIdle

MergeSegments ==
    /\ mode = "merge"
    /\ pc = "call"
    /\ result' = merge_segments(segments, params.max_duration)
    /\ pc' = "returned"
    /\ UNCHANGED <<mode, segments, max_segments, chunks, oracle,
                   all_highlights, params, mediaVars>>

NextMerge == MergeSegments

SpecMerge == InitMerge /\ [][NextMerge]_vars

\* C28 as stated: every segment merge_segments returns lasts at most
\* max_duration.
C28_MergedWithinLimit ==
    Returned("merge") =>
        \A k \in 1..Len(result) :
            result[k].end - result[k].start <= params.max_duration

\* C28: a segment that merge_segments has built from two input segments or
\* more lasts at most max_duration, and every other segment returned is an
\* input segment as it was handed in; so every segment returned lasts at
\* most max_duration when every input segment does.
C28_MergesWithinLimit ==
    Returned("merge") =>
        /\ \A k \in 1..Len(result) :
              IF Len(result[k].text) >= 2
              THEN result[k].end - result[k].start <= params.max_duration
              ELSE result[k] = segments[result[k].text[1]]
        /\ (\A i \in 1..Len(segments) :
               segments[i].end - segments[i].start <= params.max_duration)
             => \A k \in 1..Len(result) :
                   result[k].end - result[k].start <= params.max_duration

\* Two segments were merged up to the limit, and a segment longer than the
\* limit was returned as it was.
C28_Witness ==
    /\ Returned("merge")
    /\ \E k \in 1..Len(result) :
          /\ Len(result[k].text) = 2
          /\ result[k].end - result[k].start = params.max_duration
    /\ \E k \in 1..Len(result) :
          /\ Len(result[k].text) = 1
          /\ result[k].end - result[k].start > params.max_duration

====
